---- MODULE Spec2Model ----
(***************************************************************************)
(* Offline cache and status resolution of the disaster-management app.     *)
(*                                                                         *)
(*   SpecDash   the remote status log, the record-status-update handler of *)
(*              the status-update page and the dashboard's fetchData, one  *)
(*              invocation of fetchData at a time.                         *)
(*   SpecCache  the IndexedDB cache, the settings page that downloads and  *)
(*              clears it, and the offline loads of the status-update page *)
(*              and of the resident registry, which read it.               *)
(*   SpecLog    every operation next to the status log: updates online and *)
(*              offline, the loads of the pages, downloads and clears.     *)
(*   SpecStats  the dashboard's loads over the logs of evacuated residents.*)
(*   SpecStore  the operations of dbService on the three object stores.    *)
(*   SpecRace   the dashboard with filters that change while fetchData     *)
(*              runs: two invocations of fetchData at a time.              *)
(*   SpecReport the reports page's handleGenerateReport.                   *)
(***************************************************************************)
EXTENDS Integers, Sequences, FiniteSets, TLC

(***************************************************************************)
(* Bounds.                                                                 *)
(***************************************************************************)
MaxLog == 2

\* The residents get_residents_with_status returns, at most.
MaxReportResidents == 3

(***************************************************************************)
(* The remote store: residents, events, evacuation centers.                *)
(***************************************************************************)
Null == "null"

ResidentIds == {"R1", "R2"}

residentsTable ==
    [r \in ResidentIds |->
        CASE r = "R1" -> [id |-> "R1", municipality |-> "M1", barangay |-> "B1", head_of_family_name |-> "F1"]
          [] r = "R2" -> [id |-> "R2", municipality |-> "M2", barangay |-> "B3", head_of_family_name |-> "F1"]]

locationData == [M1 |-> {"B1", "B2"}, M2 |-> {}]

Municipalities == DOMAIN locationData

CenterIds == {"C1", "C2", "C3"}

evacuationCentersTable ==
    [c \in CenterIds |->
        CASE c = "C1" -> [id |-> "C1", name |-> "C1", capacity |-> 1]
          [] c = "C2" -> [id |-> "C2", name |-> "C2", capacity |-> 0]
          [] c = "C3" -> [id |-> "C3", name |-> "C3", capacity |-> 2]]

\* ResidentStatus of the types, and the five options of the status form.
ResidentStatus == {"Safe", "Evacuated", "Injured", "Missing", "Deceased", "Unknown"}

\* The options with one for every value of the type.
StatusOptions_withUnknown == ResidentStatus

StatusOptions == {"Safe", "Evacuated", "Injured", "Missing", "Deceased"}

\* A fixed order on ids, used wherever the code iterates a table in key order.
Rank(id) ==
    CASE id = "R1" -> 1 [] id = "R2" -> 2
      [] id = "C1" -> 1 [] id = "C2" -> 2 [] id = "C3" -> 3
      [] OTHER -> 0

(***************************************************************************)
(* Timestamps of the status log.  The server stamps a row with its clock,  *)
(* which has a finer resolution than the milliseconds of a JavaScript      *)
(* Date: a timestamp is a millisecond and the digits below it.             *)
(***************************************************************************)
Millis == {0, 1}

SubMs == {0, 1}

Timestamps == [ms : Millis, us : SubMs]

TsLeq(a, b) == a.ms < b.ms \/ (a.ms = b.ms /\ a.us <= b.us)

\* new Date(timestamp).getTime(): milliseconds, the digits below are dropped.
getTime(ts) == ts.ms

(***************************************************************************)
(* State.                                                                  *)
(***************************************************************************)
VARIABLES
    \* remote store
    statusLog,          \* resident_status_log, in insertion order
    now,                \* the server clock at the last insert
    activeEventRemote,  \* id of the event with status 'Active', or Null
    \* local cache (IndexedDB)
    db,                 \* the module's database handle, Null until opened
    idb,                \* the object stores: store name -> set of records
    tx,                 \* the running readwrite transaction
    calls,              \* per caller, the transactions its awaited call still runs
    \* offline data management (settings page)
    dl,                 \* the running handleDownload
    cl,                 \* the running handleClearCache
    cc,                 \* the running checkCache
    isDownloading,
    cacheInfo,
    \* application context
    isOnline,
    route,              \* the page the router shows
    \* status-update page
    su_activeEvent,
    su_allResidents,
    su_evacCenters,
    su_isLoading,
    su,                 \* the running loadInitialData
    \* resident registry page
    rp_activeEvent,
    rp_allResidents,
    rp_isLoading,
    rp,                 \* the running load of the registry
    \* dashboard page
    filterMunicipality,
    filterBarangay,
    dash_activeEvent,
    stats,
    statusGroups,
    evacCenterGroups,
    evacStats,
    totalAffected,
    allAffectedIds,
    dash_isLoading,
    fd,                 \* the running invocation of fetchData
    fdEarlier,          \* an invocation started before fd and still running
    resolved,           \* what the last resolution (step 3 and 4) worked on
    \* reports page
    report_isLoading,
    generatedReport,
    gr                  \* the running handleGenerateReport

remoteVars == <<statusLog, now, activeEventRemote>>

suVars == <<su_activeEvent, su_allResidents, su_evacCenters, su_isLoading, su>>

rpVars == <<rp_activeEvent, rp_allResidents, rp_isLoading, rp>>

dashShown == <<dash_activeEvent, stats, statusGroups, evacCenterGroups, evacStats,
               totalAffected, allAffectedIds, dash_isLoading>>

dashVars == <<filterMunicipality, filterBarangay, dashShown, fd, fdEarlier, resolved>>

cacheVars == <<db, idb, tx, calls>>

odmVars == <<dl, cl, cc, isDownloading, cacheInfo>>

appVars == <<isOnline, route>>

reportVars == <<report_isLoading, generatedReport, gr>>

vars == <<remoteVars, cacheVars, odmVars, appVars, suVars, rpVars, dashVars, reportVars>>

(***************************************************************************)
(* Helpers on sequences.                                                   *)
(***************************************************************************)
Range(s) == {s[i] : i \in DOMAIN s}

\* All orders in which the rows of a sequence can be returned.
Orders(s) ==
    {t \in [DOMAIN s -> Range(s)] :
        \E p \in [DOMAIN s -> DOMAIN s] :
            /\ \A i, j \in DOMAIN s : i # j => p[i] # p[j]
            /\ \A i \in DOMAIN s : t[i] = s[p[i]]}

RECURSIVE SeqOfSet(_)
\* The ids of a set in key order.
SeqOfSet(S) ==
    IF S = {} THEN <<>>
    ELSE LET m == CHOOSE x \in S : \A y \in S : Rank(x) <= Rank(y)
         IN <<m>> \o SeqOfSet(S \ {m})

RECURSIVE SumOver(_, _)
SumOver(f, S) ==
    IF S = {} THEN 0
    ELSE LET x == CHOOSE y \in S : TRUE IN f[x] + SumOver(f, S \ {x})

(***************************************************************************)
(* The local cache: an IndexedDB database with three object stores.  A     *)
(* readwrite transaction runs its requests one by one; while it runs, no   *)
(* other transaction whose scope overlaps its own is started; an error of  *)
(* a request aborts it and undoes its requests.                            *)
(***************************************************************************)
STORES == {"residents", "evac_centers", "metadata"}

\* createObjectStore(..., { keyPath }): the key of a record of a store.
KeyOf(storeName, item) == IF storeName = "metadata" THEN item.key ELSE item.id

ClearRequest(storeName) == [op |-> "clear", store |-> storeName]

PutRequest(storeName, item) == [op |-> "put", store |-> storeName, item |-> item]

\* store.clear() and store.put(item): put replaces the record with the item's key.
ApplyRequest(stores, req) ==
    IF req.op = "clear"
    THEN [stores EXCEPT ![req.store] = {}]
    ELSE [stores EXCEPT ![req.store] =
             {x \in @ : KeyOf(req.store, x) # KeyOf(req.store, req.item)} \cup {req.item}]

Transaction(name, scope, requests) == [name |-> name, scope |-> scope, requests |-> requests]

\* Variants of cacheData: one that puts without clearing, one that skips the
\* first item, one that clears and puts in two transactions.
cacheData_noClear(storeName, data) ==
    <<Transaction("cacheData", {storeName},
                  [i \in DOMAIN data |-> PutRequest(storeName, data[i])])>>

cacheData_skipFirst(storeName, data) ==
    <<Transaction("cacheData", {storeName},
                  <<ClearRequest(storeName)>> \o
                  [i \in 1 .. Len(data) - 1 |-> PutRequest(storeName, data[i + 1])])>>

cacheData_twoTransactions(storeName, data) ==
    <<Transaction("cacheData", {storeName}, <<ClearRequest(storeName)>>),
      Transaction("cacheData", {storeName},
                  [i \in DOMAIN data |-> PutRequest(storeName, data[i])])>>

\* cacheData: one readwrite transaction that clears the store and puts every item.
cacheData(storeName, data) ==
    <<Transaction("cacheData", {storeName},
                  <<ClearRequest(storeName)>> \o
                  [i \in DOMAIN data |-> PutRequest(storeName, data[i])])>>

\* A variant of setMetadata that stores the key without the value given.
setMetadata_noValue(key, value) ==
    <<Transaction("setMetadata", {"metadata"},
                  <<PutRequest("metadata", [key |-> key,
                                            value |-> [municipality |-> Null,
                                                       timestamp |-> Null]])>>)>>

\* A variant of setMetadata that clears the store before the put, as
\* cacheData does.
setMetadata_clearing(key, value) ==
    <<Transaction("setMetadata", {"metadata"},
                  <<ClearRequest("metadata"),
                    PutRequest("metadata", [key |-> key, value |-> value])>>)>>

\* setMetadata: one readwrite transaction that puts { key, value }.
setMetadata(key, value) ==
    <<Transaction("setMetadata", {"metadata"},
                  <<PutRequest("metadata", [key |-> key, value |-> value])>>)>>

\* Variants of clearCache: one that leaves the metadata, one transaction per store.
clearCache_twoStores ==
    <<Transaction("clearCache", {"residents", "evac_centers"},
                  <<ClearRequest("residents"), ClearRequest("evac_centers")>>)>>

clearCache_threeTransactions ==
    <<Transaction("clearCache", {"residents"}, <<ClearRequest("residents")>>),
      Transaction("clearCache", {"evac_centers"}, <<ClearRequest("evac_centers")>>),
      Transaction("clearCache", {"metadata"}, <<ClearRequest("metadata")>>)>>

\* clearCache: one readwrite transaction over the three stores.
clearCache ==
    <<Transaction("clearCache", STORES,
                  <<ClearRequest("residents"), ClearRequest("evac_centers"),
                    ClearRequest("metadata")>>)>>

RECURSIVE SortedRecords(_, _)
\* store.getAll(): the records of a store in key order.
SortedRecords(storeName, records) ==
    IF records = {} THEN <<>>
    ELSE LET m == CHOOSE x \in records :
                      \A y \in records : Rank(KeyOf(storeName, x)) <= Rank(KeyOf(storeName, y))
         IN <<m>> \o SortedRecords(storeName, records \ {m})

\* getCachedData: what a readonly transaction reads from the store.
getCachedData(storeName) == SortedRecords(storeName, idb[storeName])

\* getMetadata: store.get(key), as the set of the records of that key: the one
\* record, or none (request.result is undefined).
getMetadata(key) == {x \in idb["metadata"] : x.key = key}

NoTx == [owner |-> "null"]

\* A readonly transaction on a store starts once no readwrite transaction holds it.
CanRead(storeName) == IF tx = NoTx THEN TRUE ELSE storeName \notin tx.scope

Callers == {"download", "clear"}

NoStores == [n \in STORES |-> {}]

NoCall == [queue |-> <<>>, outcome |-> "none", stores |-> {}, begun |-> FALSE,
           began |-> NoStores]

\* openDB: resolves with the handle, opening the database on the first call,
\* or rejects when the database cannot be opened.
openDB(error) ==
    /\ error => db = Null
    /\ db' = IF error THEN Null ELSE "open"

\* A caller awaits an operation: openDB, then the operation's transactions.
Call(caller, transactions, error) ==
    /\ openDB(error)
    /\ calls' = [calls EXCEPT ![caller] =
                     IF error THEN [NoCall EXCEPT !.outcome = "rejected"]
                     ELSE [NoCall EXCEPT !.queue = transactions, !.outcome = "pending",
                                         !.stores = UNION {transactions[i].scope :
                                                              i \in DOMAIN transactions}]]

\* The next transaction of a call starts: it holds its scope from here on.
txBegin(caller) ==
    /\ calls[caller].outcome = "pending"
    /\ tx = NoTx
    /\ tx' = [owner    |-> caller,
              name     |-> Head(calls[caller].queue).name,
              scope    |-> Head(calls[caller].queue).scope,
              requests |-> Head(calls[caller].queue).requests,
              undo     |-> idb]
    /\ calls' = [calls EXCEPT ![caller].begun = TRUE,
                              ![caller].began = IF calls[caller].begun THEN @ ELSE idb]
    /\ UNCHANGED <<db, idb>>
    /\ UNCHANGED <<reportVars, remoteVars, odmVars, appVars, suVars, rpVars, dashVars>>

\* The next request of the running transaction succeeds.
txRequest ==
    /\ tx # NoTx
    /\ tx.requests # <<>>
    /\ idb' = ApplyRequest(idb, Head(tx.requests))
    /\ tx' = [tx EXCEPT !.requests = Tail(@)]
    /\ UNCHANGED <<db, calls>>
    /\ UNCHANGED <<reportVars, remoteVars, odmVars, appVars, suVars, rpVars, dashVars>>

\* Every request is done: the transaction commits (oncomplete).
txCommit ==
    /\ tx # NoTx
    /\ tx.requests = <<>>
    /\ tx' = NoTx
    /\ calls' = [calls EXCEPT ![tx.owner].queue = Tail(@),
                              ![tx.owner].outcome =
                                  IF Tail(calls[tx.owner].queue) = <<>>
                                  THEN "resolved" ELSE "pending"]
    /\ UNCHANGED <<db, idb>>
    /\ UNCHANGED <<reportVars, remoteVars, odmVars, appVars, suVars, rpVars, dashVars>>

\* A request fails: the transaction aborts, its requests are undone (onerror).
txAbort ==
    /\ tx # NoTx
    /\ tx.requests # <<>>
    /\ idb' = tx.undo
    /\ tx' = NoTx
    /\ calls' = [calls EXCEPT ![tx.owner].queue = <<>>,
                              ![tx.owner].outcome = "rejected"]
    /\ UNCHANGED db
    /\ UNCHANGED <<reportVars, remoteVars, odmVars, appVars, suVars, rpVars, dashVars>>

(***************************************************************************)
(* Init.                                                                   *)
(***************************************************************************)
NoFetch == [pc |-> "idle"]

\* useState(null) of cacheInfo: no municipality, no timestamp.
NoCacheInfo == [municipality |-> Null, timestamp |-> Null]

\* No resolution has run yet.
NoResolution == [residentIds |-> <<>>, logs |-> <<>>, event_id |-> Null, latestLogs |-> <<>>]

Started(muni, brgy) == [pc |-> "event", filterMunicipality |-> muni, filterBarangay |-> brgy]

NoStats == [s \in ResidentStatus |-> 0]

\* The useState initial values of StatusUpdatePage.
su_initial ==
    /\ su_activeEvent = Null
    /\ su_allResidents = <<>>
    /\ su_evacCenters = <<>>
    /\ su_isLoading = TRUE
    /\ su = NoFetch

\* The useState initial values of OfflineDataManagement.
odm_initial ==
    /\ isDownloading = FALSE
    /\ cacheInfo = NoCacheInfo
    /\ dl = NoFetch
    /\ cl = NoFetch

\* The database before the app has opened it: no store holds a record.
cache_initial ==
    /\ db = Null
    /\ idb = NoStores
    /\ tx = NoTx
    /\ calls = [c \in Callers |-> NoCall]

\* The useState initial values of ResidentsPage.
report_initial ==
    /\ report_isLoading = FALSE
    /\ generatedReport = Null
    /\ gr = NoFetch

rp_initial ==
    /\ rp_activeEvent = Null
    /\ rp_allResidents = <<>>
    /\ rp_isLoading = TRUE
    /\ rp = NoFetch

\* The useState initial values of DashboardPage.
dash_initial ==
    /\ filterMunicipality = "all"
    /\ filterBarangay = "all"
    /\ dash_activeEvent = Null
    /\ stats = NoStats
    /\ statusGroups = [s \in ResidentStatus |-> <<>>]
    /\ evacCenterGroups = [c \in CenterIds |-> <<>>]
    /\ evacStats = <<>>
    /\ totalAffected = -1
    /\ allAffectedIds = <<>>
    /\ dash_isLoading = TRUE
    /\ fdEarlier = NoFetch
    /\ resolved = NoResolution

\* A page that mounts starts from its initial values.
su_reset ==
    /\ su_activeEvent' = Null
    /\ su_allResidents' = <<>>
    /\ su_evacCenters' = <<>>
    /\ su_isLoading' = TRUE

rp_reset ==
    /\ rp_activeEvent' = Null
    /\ rp_allResidents' = <<>>
    /\ rp_isLoading' = TRUE

dash_reset ==
    /\ filterMunicipality' = "all"
    /\ filterBarangay' = "all"
    /\ dash_activeEvent' = Null
    /\ stats' = NoStats
    /\ statusGroups' = [s \in ResidentStatus |-> <<>>]
    /\ evacCenterGroups' = [c \in CenterIds |-> <<>>]
    /\ evacStats' = <<>>
    /\ totalAffected' = -1
    /\ allAffectedIds' = <<>>
    /\ dash_isLoading' = TRUE
    /\ fdEarlier' = NoFetch
    /\ resolved' = NoResolution

\* The app opens on the dashboard, whose mount effect has called fetchData.
Init ==
    /\ statusLog = <<>>
    /\ now = [ms |-> 0, us |-> 0]
    /\ activeEventRemote = "E1"
    /\ isOnline = TRUE
    /\ route = "/"
    /\ cache_initial
    /\ odm_initial
    /\ cc = NoFetch
    /\ su_initial
    /\ rp_initial
    /\ report_initial
    /\ dash_initial
    /\ fd = Started("all", "all")

\* A resident and a center as the remote store returns them for select('*').
residentRow(r) == [id |-> r] @@ residentsTable[r]

centerRow(c) == [id |-> c, capacity |-> evacuationCentersTable[c].capacity]

(***************************************************************************)
(* The remote store's events table: another event becomes the active one.  *)
(***************************************************************************)
activateEvent(e) ==
    /\ activeEventRemote # e
    /\ activeEventRemote' = e
    /\ UNCHANGED <<reportVars, statusLog, now, cacheVars, odmVars, appVars, suVars, rpVars, dashVars>>

(***************************************************************************)
(* StatusUpdatePage.loadInitialData, online branch: the active event, then *)
(* the rows of the residents table (which holds no status) and the         *)
(* evacuation centers.  Nothing is set when there is no active event.      *)
(***************************************************************************)
Undefined == "undefined"

\* A resident as a page holds it: the row and the status merged into it.
Shown(id, status) == [id |-> id, status |-> status]

Ids(rows) == [i \in DOMAIN rows |-> rows[i].id]

\* loadInitialData writing the residents it fetched through to the cache.
su_loadOnline_caching ==
    /\ su.pc = "load"
    /\ isOnline
    /\ IF activeEventRemote # Null
       THEN /\ su_activeEvent' = activeEventRemote
            /\ su_allResidents' = [i \in 1 .. Cardinality(ResidentIds) |->
                                      Shown(SeqOfSet(ResidentIds)[i], Undefined)]
            /\ su_evacCenters' = SeqOfSet(CenterIds)
       ELSE UNCHANGED <<su_activeEvent, su_allResidents, su_evacCenters>>
    /\ su_isLoading' = FALSE
    /\ su' = NoFetch
    /\ idb' = IF activeEventRemote # Null
              THEN [idb EXCEPT !["residents"] = {residentRow(r) : r \in ResidentIds}]
              ELSE idb
    /\ UNCHANGED <<reportVars, remoteVars, db, tx, calls, odmVars, appVars, rpVars, dashVars>>

su_loadOnline ==
    /\ su.pc = "load"
    /\ isOnline
    /\ IF activeEventRemote # Null
       THEN /\ su_activeEvent' = activeEventRemote
            /\ su_allResidents' = [i \in 1 .. Cardinality(ResidentIds) |->
                                      Shown(SeqOfSet(ResidentIds)[i], Undefined)]
            /\ su_evacCenters' = SeqOfSet(CenterIds)
       ELSE UNCHANGED <<su_activeEvent, su_allResidents, su_evacCenters>>
    /\ su_isLoading' = FALSE
    /\ su' = NoFetch
    /\ UNCHANGED <<reportVars, remoteVars, cacheVars, odmVars, appVars, rpVars, dashVars>>

\* cachedResidents.map(r => ({ ...r, status: undefined }))
residentsWithoutStatus(cachedResidents) ==
    [i \in DOMAIN cachedResidents |-> Shown(cachedResidents[i].id, Undefined)]

(***************************************************************************)
(* StatusUpdatePage.loadInitialData, offline branch: the cached residents, *)
(* then the cached centers.  A read that rejects is not caught: the load   *)
(* ends where it is.                                                       *)
(***************************************************************************)
su_loadCachedResidents(error) ==
    /\ su.pc = "load"
    /\ ~isOnline
    /\ CanRead("residents")
    /\ IF error
       THEN /\ su' = NoFetch
            /\ UNCHANGED <<db, su_allResidents>>
       ELSE /\ db' = "open"
            /\ su_allResidents' = residentsWithoutStatus(getCachedData("residents"))
            /\ su' = [pc |-> "centers", cachedResidents |-> getCachedData("residents")]
    /\ UNCHANGED <<reportVars, remoteVars, idb, tx, calls, odmVars, appVars, su_activeEvent,
                   su_evacCenters, su_isLoading, rpVars, dashVars>>

su_loadCachedCenters(error) ==
    /\ su.pc = "centers"
    /\ CanRead("evac_centers")
    /\ IF error
       THEN /\ su' = NoFetch
            /\ UNCHANGED <<su_evacCenters, su_activeEvent, su_isLoading>>
       ELSE /\ su_evacCenters' = Ids(getCachedData("evac_centers"))
            /\ su_activeEvent' = Null
            /\ su_isLoading' = FALSE
            /\ su' = [pc |-> "idle", cachedResidents |-> su.cachedResidents,
                      cachedCenters |-> getCachedData("evac_centers")]
    /\ UNCHANGED <<reportVars, remoteVars, db, idb, tx, calls, odmVars, appVars,
                   su_allResidents, rpVars, dashVars>>

(***************************************************************************)
(* ResidentsPage: getActiveEvent and fetchData.                            *)
(***************************************************************************)
\* getActiveEvent, online: the active event; a failed fetch leaves data null.
rp_getActiveEvent(error) ==
    /\ rp.pc = "event"
    /\ rp_activeEvent' = IF error THEN Null ELSE activeEventRemote
    /\ rp_isLoading' = TRUE
    /\ rp' = [pc |-> "residents", eventId |-> IF error THEN Null ELSE activeEventRemote]
    /\ UNCHANGED <<reportVars, remoteVars, cacheVars, odmVars, appVars, suVars, rp_allResidents, dashVars>>

\* fetchData, online, step 1: every resident, ordered by last name.
rp_fetchResidents(error) ==
    /\ rp.pc = "residents"
    /\ LET residents == SeqOfSet(ResidentIds) IN
       IF error
       THEN /\ rp_isLoading' = FALSE
            /\ rp' = NoFetch
            /\ UNCHANGED rp_allResidents
       ELSE IF rp.eventId # Null
            THEN /\ rp' = [pc |-> "logs", eventId |-> rp.eventId, residents |-> residents]
                 /\ UNCHANGED <<rp_allResidents, rp_isLoading>>
            ELSE /\ rp_allResidents' = [i \in DOMAIN residents |->
                                           Shown(residents[i], Undefined)]
                 /\ rp_isLoading' = FALSE
                 /\ rp' = NoFetch
    /\ UNCHANGED <<reportVars, remoteVars, cacheVars, odmVars, appVars, suVars, rp_activeEvent, dashVars>>

\* The rows of an event in the order of .order('timestamp', { ascending: true }):
\* the server compares the stored timestamps; rows of one timestamp come in any order.
OrderedLogs(eventId) ==
    {logs \in Orders(SelectSeq(statusLog, LAMBDA row : row.event_id = eventId)) :
        \A i, j \in DOMAIN logs : i < j => TsLeq(logs[i].timestamp, logs[j].timestamp)}

RECURSIVE StatusMap(_, _)
\* logs.forEach(log => statusMap.set(log.resident_id, log.status)), from an initial map.
StatusMap(logs, map) ==
    IF logs = <<>> THEN map
    ELSE StatusMap(Tail(logs), [map EXCEPT ![Head(logs).resident_id] = Head(logs).status])

\* statusMap.get(r.id) || 'Unknown'
MergedStatus(logs, residentId) ==
    LET status == StatusMap(logs, [r \in ResidentIds |-> Undefined])[residentId]
    IN IF status = Undefined THEN "Unknown" ELSE status

\* fetchData, online, step 2: the logs of the event, merged into the residents.
rp_fetchLogs(error) ==
    /\ rp.pc = "logs"
    /\ \E logs \in OrderedLogs(rp.eventId) :
          /\ rp_allResidents' =
                 IF error
                 THEN [i \in DOMAIN rp.residents |-> Shown(rp.residents[i], Undefined)]
                 ELSE [i \in DOMAIN rp.residents |->
                          Shown(rp.residents[i], MergedStatus(logs, rp.residents[i]))]
          /\ rp' = [pc |-> "idle", eventId |-> rp.eventId,
                    logs |-> IF error THEN <<>> ELSE logs, failed |-> error]
    /\ rp_isLoading' = FALSE
    /\ UNCHANGED <<reportVars, remoteVars, cacheVars, odmVars, appVars, suVars, rp_activeEvent, dashVars>>

\* fetchData, offline: the cached residents, their status cleared.
rp_loadCached(error) ==
    /\ rp.pc = "cached"
    /\ CanRead("residents")
    /\ IF error
       THEN /\ rp' = NoFetch
            /\ UNCHANGED <<db, rp_allResidents, rp_isLoading>>
       ELSE /\ db' = "open"
            /\ rp_allResidents' = residentsWithoutStatus(getCachedData("residents"))
            /\ rp_isLoading' = FALSE
            /\ rp' = [pc |-> "idle", cachedResidents |-> getCachedData("residents")]
    /\ UNCHANGED <<reportVars, remoteVars, idb, tx, calls, odmVars, appVars, suVars,
                   rp_activeEvent, dashVars>>

(***************************************************************************)
(* StatusUpdatePage.handleUpdateStatus.  The form's fields (the selected   *)
(* resident, the checked family members, the status and the center) are    *)
(* the handler's inputs; the server stamps the rows with its clock.        *)
(***************************************************************************)
\* handleSelectResident: the family members shown for a selected resident.
FamilyMembers(resident) ==
    IF residentsTable[resident].head_of_family_name # Null
    THEN {r \in Range(Ids(su_allResidents)) :
              residentsTable[r].head_of_family_name
                  = residentsTable[resident].head_of_family_name}
    ELSE {resident}

\* The ids the handler updates: the checked boxes of a family, or the resident.
SelectedIdSets(selectedResident) ==
    IF Cardinality(FamilyMembers(selectedResident)) > 1
    THEN SUBSET FamilyMembers(selectedResident)
    ELSE {{selectedResident}}

\* statusLogs with evac_center_id: evacCenterId || null for every status.
StatusLogRows_anyStatus(selectedIds, newStatus, evacCenterId, eventId, ts) ==
    [i \in 1 .. Len(selectedIds) |->
        [resident_id    |-> selectedIds[i],
         status         |-> newStatus,
         event_id       |-> eventId,
         timestamp      |-> ts,
         evac_center_id |-> IF evacCenterId = "" THEN Null ELSE evacCenterId]]

\* statusLogs: one row per selected id.  '' || null is null.
StatusLogRows(selectedIds, newStatus, evacCenterId, eventId, ts) ==
    [i \in 1 .. Len(selectedIds) |->
        [resident_id    |-> selectedIds[i],
         status         |-> newStatus,
         event_id       |-> eventId,
         timestamp      |-> ts,
         evac_center_id |-> IF newStatus = "Evacuated"
                            THEN (IF evacCenterId = "" THEN Null ELSE evacCenterId)
                            ELSE Null]]

FormValid_unchecked(newStatus, evacCenterId) == TRUE

\* The form submits only when its required fields are filled: the center
\* select, rendered for 'Evacuated', is required and its placeholder is ''.
FormValid(newStatus, evacCenterId) == newStatus = "Evacuated" => evacCenterId # ""

\* An upsert on (resident_id, event_id) in place of the insert.
Insert_upsert(table, rows) ==
    SelectSeq(table, LAMBDA old : \A i \in DOMAIN rows :
                                     \/ rows[i].resident_id # old.resident_id
                                     \/ rows[i].event_id # old.event_id) \o rows

\* supabase.from('resident_status_log').insert(statusLogs): the rows are added.
Insert(table, rows) == table \o rows

UpdateGuard_offline(selectedResident, activeEvent, online) ==
    selectedResident # Null /\ activeEvent # Null

\* The handler goes on only with a selected resident, an active event and the
\* connectivity flag set; otherwise it shows a toast and returns.
UpdateGuard(selectedResident, activeEvent, online) ==
    selectedResident # Null /\ activeEvent # Null /\ online

\* The submit event of the form.  The handler is modelled in every state of
\* the mounted page, also where the page shows its spinner or disables the
\* submit button: what it does there is decided by its own guard.
handleUpdateStatus(newStatus, evacCenterId, error) ==
    /\ route = "/update"
    /\ FormValid(newStatus, evacCenterId)
    /\ evacCenterId \in Range(su_evacCenters) \cup {""}
    /\ \E selectedResident \in Range(Ids(su_allResidents)) \cup {Null} :
          IF ~UpdateGuard(selectedResident, su_activeEvent, isOnline)
          THEN UNCHANGED <<statusLog, now>>
          ELSE \E checked \in SelectedIdSets(selectedResident) \ {{}} :
               \E ts \in {t \in Timestamps : IF statusLog = <<>> THEN t = now
                                                                ELSE TsLeq(now, t)} :
                  /\ Len(statusLog) + Cardinality(checked) <= MaxLog
                  /\ IF error
                     THEN UNCHANGED <<statusLog, now>>
                     ELSE /\ statusLog' = Insert(statusLog,
                                  StatusLogRows(SeqOfSet(checked), newStatus, evacCenterId,
                                                su_activeEvent, ts))
                          /\ now' = ts
    /\ UNCHANGED <<reportVars, activeEventRemote, cacheVars, odmVars, appVars, suVars, rpVars, dashVars>>

(***************************************************************************)
(* DashboardPage.fetchData, steps 3 and 4: the status resolution.          *)
(***************************************************************************)
\* Index of the entry of latestStatusMap for a resident, 0 when it has none.
MapIndex(map, residentId) ==
    IF \E i \in DOMAIN map : map[i].resident_id = residentId
    THEN CHOOSE i \in DOMAIN map : map[i].resident_id = residentId
    ELSE 0

\* The condition under which a log row replaces the entry kept so far.
Replaces(log, existing) == getTime(log.timestamp) > getTime(existing.timestamp)

RECURSIVE LatestStatusMap(_, _)
\* logs.forEach over a Map, which keeps its keys in the order of first insertion.
LatestStatusMap(logs, map) ==
    IF logs = <<>> THEN map
    ELSE LET log == Head(logs)
             i == MapIndex(map, log.resident_id)
         IN IF i = 0
            THEN LatestStatusMap(Tail(logs), Append(map, log))
            ELSE IF Replaces(log, map[i])
                 THEN LatestStatusMap(Tail(logs), [map EXCEPT ![i] = log])
                 ELSE LatestStatusMap(Tail(logs), map)

LatestLogs(logs) == LatestStatusMap(logs, <<>>)

ResidentIdsOf(rows) == [i \in DOMAIN rows |-> rows[i].resident_id]

UnknownIds_all(residentIds, latestLogs) == residentIds

\* Residents in the filtered set who have no log.
UnknownIds(residentIds, latestLogs) ==
    SelectSeq(residentIds, LAMBDA id : id \notin Range(ResidentIdsOf(latestLogs)))

\* newStats without the assignment of newStats.Unknown.
NewStats_noUnknown(residentIds, latestLogs) ==
    [s \in ResidentStatus |->
        IF s = "Unknown" THEN 0
        ELSE Len(SelectSeq(latestLogs, LAMBDA log : log.status = s))]

NewStats(residentIds, latestLogs) ==
    [s \in ResidentStatus |->
        IF s = "Unknown" THEN Len(UnknownIds(residentIds, latestLogs))
        ELSE Len(SelectSeq(latestLogs, LAMBDA log : log.status = s))]

\* newGroups with every resident of the filtered set under Unknown.
NewGroups_unknownAll(residentIds, latestLogs) ==
    [s \in ResidentStatus |->
        IF s = "Unknown" THEN residentIds
        ELSE ResidentIdsOf(SelectSeq(latestLogs, LAMBDA log : log.status = s))]

NewGroups(residentIds, latestLogs) ==
    [s \in ResidentStatus |->
        IF s = "Unknown" THEN UnknownIds(residentIds, latestLogs)
        ELSE ResidentIdsOf(SelectSeq(latestLogs, LAMBDA log : log.status = s))]

\* A center with no resident has no key in the object: <<>> stands for that.
NewEvacGroups(latestLogs) ==
    [c \in CenterIds |->
        ResidentIdsOf(SelectSeq(latestLogs,
            LAMBDA log : log.status = "Evacuated" /\ log.evac_center_id # Null
                         /\ log.evac_center_id = c))]

(***************************************************************************)
(* DashboardPage.fetchData, step 5: the evacuation-center stats.           *)
(***************************************************************************)
Occupancy(latestLogs, centerId) ==
    Len(SelectSeq(latestLogs,
            LAMBDA log : log.status = "Evacuated" /\ log.evac_center_id # Null
                         /\ log.evac_center_id = centerId))

\* The chart data filtered by capacity alone.
EvacChartData_capacityOnly(centers, latestLogs) ==
    SelectSeq([i \in DOMAIN centers |->
                  [id        |-> centers[i],
                   name      |-> evacuationCentersTable[centers[i]].name,
                   occupancy |-> Occupancy(latestLogs, centers[i]),
                   capacity  |-> evacuationCentersTable[centers[i]].capacity]],
              LAMBDA d : d.capacity > 0)

EvacChartData(centers, latestLogs) ==
    SelectSeq([i \in DOMAIN centers |->
                  [id        |-> centers[i],
                   name      |-> evacuationCentersTable[centers[i]].name,
                   occupancy |-> Occupancy(latestLogs, centers[i]),
                   capacity  |-> evacuationCentersTable[centers[i]].capacity]],
              LAMBDA d : d.capacity > 0 \/ d.occupancy > 0)

\* pA of the comparator, as a fraction <<numerator, denominator>>.
Percentage(d) == IF d.capacity > 0 THEN <<d.occupancy, d.capacity>> ELSE <<0, 1>>

\* The comparator with its operands exchanged: pA - pB.
Before_ascending(a, b) ==
    Percentage(a)[1] * Percentage(b)[2] < Percentage(b)[1] * Percentage(a)[2]

\* pB - pA < 0: a is kept before b.
Before(a, b) ==
    Percentage(b)[1] * Percentage(a)[2] < Percentage(a)[1] * Percentage(b)[2]

RECURSIVE InsertSorted(_, _)
\* Array.prototype.sort is stable: d goes behind every entry it is not before.
InsertSorted(sorted, d) ==
    IF sorted = <<>> THEN <<d>>
    ELSE IF Before(d, Head(sorted)) THEN <<d>> \o sorted
         ELSE <<Head(sorted)>> \o InsertSorted(Tail(sorted), d)

RECURSIVE SortChartData(_)
SortChartData(data) ==
    IF data = <<>> THEN <<>>
    ELSE InsertSorted(SortChartData(SubSeq(data, 1, Len(data) - 1)), data[Len(data)])

(***************************************************************************)
(* DashboardPage: mounting the page and changing a filter start fetchData; *)
(* its awaits are the steps fetchEvent, fetchResidents, fetchLogs and      *)
(* fetchCenters.  SpecDash runs one invocation at a time: the user leaves  *)
(* the page or changes a filter only while no invocation is running, and   *)
(* changes the municipality with the barangay filter at 'all'.             *)
(***************************************************************************)
\* The router shows the dashboard: the page mounts and its effect calls fetchData.
\* No load of the page the user leaves is running.
PageIdle ==
    CASE route = "/" -> fd.pc = "idle"
      [] route = "/update" -> su.pc = "idle"
      [] route = "/residents" -> rp.pc = "idle"
      [] route = "/settings" -> cc.pc = "idle"

rp_started_online(online) == [pc |-> "event"]

\* ResidentsPage's effect: getActiveEvent fetches the event when online, and
\* calls fetchData() at once when offline.
rp_started(online) == IF online THEN [pc |-> "event"] ELSE [pc |-> "cached"]

\* A handler of a page that has unmounted keeps running; its state updates
\* act on nothing.
Unmounted(handler) == IF handler.pc = "idle" THEN handler ELSE [handler EXCEPT !.mounted = FALSE]

\* The router shows another page: the page unmounts; the page of the route
\* mounts with its initial values and its mount effect starts its load.
navigate(to) ==
    /\ route # to
    /\ PageIdle
    /\ route' = to
    /\ su_reset
    /\ rp_reset
    /\ dash_reset
    /\ su' = IF to = "/update" THEN [pc |-> "load"] ELSE NoFetch
    /\ rp' = IF to = "/residents" THEN rp_started(isOnline) ELSE NoFetch
    /\ fd' = IF to = "/" THEN Started("all", "all") ELSE NoFetch
    /\ cc' = IF to = "/settings" THEN [pc |-> "check"] ELSE NoFetch
    /\ isDownloading' = FALSE
    /\ cacheInfo' = NoCacheInfo
    /\ dl' = Unmounted(dl)
    /\ cl' = Unmounted(cl)
    /\ UNCHANGED <<reportVars, remoteVars, cacheVars, isOnline>>

\* App: the browser's online and offline events.  The effects of the status
\* update page and of the registry depend on isOnline and run again.
setIsOnline(online) ==
    /\ isOnline # online
    /\ PageIdle
    /\ isOnline' = online
    /\ su' = IF route = "/update" THEN [pc |-> "load"] ELSE su
    /\ su_isLoading' = IF route = "/update" THEN TRUE ELSE su_isLoading
    /\ rp' = IF route = "/residents" THEN rp_started(online) ELSE rp
    /\ rp_isLoading' = IF route = "/residents" /\ ~online THEN TRUE ELSE rp_isLoading
    /\ rp_activeEvent' = IF route = "/residents" /\ ~online THEN Null ELSE rp_activeEvent
    /\ UNCHANGED <<reportVars, remoteVars, cacheVars, odmVars, route, su_activeEvent, su_allResidents,
                   su_evacCenters, rp_allResidents, dashVars>>

setFilterMunicipality(muni) ==
    /\ route = "/"
    /\ fd.pc = "idle"
    /\ ~dash_isLoading
    /\ filterBarangay = "all"
    /\ muni # filterMunicipality
    /\ filterMunicipality' = muni
    /\ filterBarangay' = "all"
    /\ dash_isLoading' = TRUE
    /\ fd' = Started(muni, "all")
    /\ UNCHANGED <<reportVars, remoteVars, cacheVars, odmVars, appVars, suVars, rpVars, fdEarlier, dash_activeEvent, stats, statusGroups,
                   evacCenterGroups, evacStats, totalAffected, allAffectedIds, resolved>>

setFilterBarangay(brgy) ==
    /\ route = "/"
    /\ fd.pc = "idle"
    /\ ~dash_isLoading
    /\ filterMunicipality # "all"
    /\ brgy \in locationData[filterMunicipality] \cup {"all"}
    /\ brgy # filterBarangay
    /\ filterBarangay' = brgy
    /\ dash_isLoading' = TRUE
    /\ fd' = Started(filterMunicipality, brgy)
    /\ UNCHANGED <<reportVars, remoteVars, cacheVars, odmVars, appVars, suVars, rpVars, fdEarlier, filterMunicipality, dash_activeEvent,
                   stats, statusGroups, evacCenterGroups, evacStats, totalAffected,
                   allAffectedIds, resolved>>

\* fetchData without the check of eventError and eventData.
fetchEvent_unguarded(error) ==
    /\ fd.pc = "event"
    /\ IF FALSE
       THEN /\ dash_isLoading' = FALSE
            /\ fd' = NoFetch
            /\ UNCHANGED dash_activeEvent
       ELSE /\ dash_activeEvent' = IF error THEN Null ELSE activeEventRemote
            /\ fd' = [fd EXCEPT !.pc = "residents"] @@
                     [eventData |-> IF error THEN Null ELSE activeEventRemote]
            /\ UNCHANGED dash_isLoading
    /\ UNCHANGED <<reportVars, remoteVars, cacheVars, odmVars, appVars, suVars, rpVars, fdEarlier, filterMunicipality, filterBarangay,
                   stats, statusGroups, evacCenterGroups, evacStats, totalAffected,
                   allAffectedIds, resolved>>

fetchEvent(error) ==
    /\ fd.pc = "event"
    /\ IF error \/ activeEventRemote = Null
       THEN /\ dash_isLoading' = FALSE
            /\ fd' = NoFetch
            /\ UNCHANGED dash_activeEvent
       ELSE /\ dash_activeEvent' = activeEventRemote
            /\ fd' = [fd EXCEPT !.pc = "residents"] @@ [eventData |-> activeEventRemote]
            /\ UNCHANGED dash_isLoading
    /\ UNCHANGED <<reportVars, remoteVars, cacheVars, odmVars, appVars, suVars, rpVars, fdEarlier, filterMunicipality, filterBarangay,
                   stats, statusGroups, evacCenterGroups, evacStats, totalAffected,
                   allAffectedIds, resolved>>

\* residentQuery: the ids of the residents that pass the filters of the invocation.
ResidentQuery(muni, brgy) ==
    {r \in ResidentIds :
        /\ muni # "all" => residentsTable[r].municipality = muni
        /\ brgy # "all" => residentsTable[r].barangay = brgy}

fetchResidents(error) ==
    /\ fd.pc = "residents"
    /\ LET residentIds == SeqOfSet(ResidentQuery(fd.filterMunicipality, fd.filterBarangay)) IN
       IF error
       THEN /\ dash_isLoading' = FALSE
            /\ fd' = NoFetch
            /\ UNCHANGED <<stats, statusGroups, evacCenterGroups, evacStats,
                           totalAffected, allAffectedIds, resolved>>
       ELSE /\ totalAffected' = Len(residentIds)
            /\ allAffectedIds' = residentIds
            /\ IF Len(residentIds) = 0
               THEN /\ stats' = [NoStats EXCEPT !["Unknown"] = Len(residentIds)]
                    /\ statusGroups' = [s \in ResidentStatus |-> <<>>]
                    /\ evacCenterGroups' = [c \in CenterIds |-> <<>>]
                    /\ evacStats' = <<>>
                    /\ dash_isLoading' = FALSE
                    /\ fd' = NoFetch
                    /\ resolved' = [residentIds |-> residentIds, logs |-> <<>>,
                                    event_id |-> fd.eventData, latestLogs |-> <<>>]
               ELSE /\ fd' = [fd EXCEPT !.pc = "logs"] @@ [residentIds |-> residentIds]
                    /\ UNCHANGED <<stats, statusGroups, evacCenterGroups, evacStats,
                                   dash_isLoading, resolved>>
    /\ UNCHANGED <<reportVars, remoteVars, cacheVars, odmVars, appVars, suVars, rpVars, fdEarlier, filterMunicipality, filterBarangay,
                   dash_activeEvent>>

LogQuery_anyEvent(eventId, residentIds) ==
    SelectSeq(statusLog, LAMBDA row : row.resident_id \in Range(residentIds))

\* The rows the log query selects: .eq('event_id', ...).in('resident_id', ...).
LogQuery(eventId, residentIds) ==
    SelectSeq(statusLog, LAMBDA row : row.event_id = eventId
                                      /\ row.resident_id \in Range(residentIds))

fetchLogs(error) ==
    /\ fd.pc = "logs"
    /\ \E logs \in Orders(LogQuery(fd.eventData, fd.residentIds)) :
       IF error
       THEN /\ dash_isLoading' = FALSE
            /\ fd' = NoFetch
            /\ UNCHANGED <<stats, statusGroups, evacCenterGroups, resolved>>
       ELSE /\ stats' = NewStats(fd.residentIds, LatestLogs(logs))
            /\ statusGroups' = NewGroups(fd.residentIds, LatestLogs(logs))
            /\ evacCenterGroups' = NewEvacGroups(LatestLogs(logs))
            /\ resolved' = [residentIds |-> fd.residentIds, logs |-> logs,
                            event_id |-> fd.eventData, latestLogs |-> LatestLogs(logs)]
            /\ fd' = [fd EXCEPT !.pc = "centers"] @@ [latestLogs |-> LatestLogs(logs)]
            /\ UNCHANGED dash_isLoading
    /\ UNCHANGED <<reportVars, remoteVars, cacheVars, odmVars, appVars, suVars, rpVars, fdEarlier, filterMunicipality, filterBarangay,
                   dash_activeEvent, evacStats, totalAffected, allAffectedIds>>

fetchCenters(error) ==
    /\ fd.pc = "centers"
    /\ LET centers == SeqOfSet(CenterIds) IN
          evacStats' = IF error THEN evacStats
                       ELSE SortChartData(EvacChartData(centers, fd.latestLogs))
    /\ dash_isLoading' = FALSE
    /\ fd' = NoFetch
    /\ UNCHANGED <<reportVars, remoteVars, cacheVars, odmVars, appVars, suVars, rpVars, fdEarlier, filterMunicipality, filterBarangay,
                   dash_activeEvent, stats, statusGroups, evacCenterGroups,
                   totalAffected, allAffectedIds, resolved>>

(***************************************************************************)
(* A filter that changes while fetchData runs.  The filters are rendered   *)
(* unless the page shows its spinner (isLoading && !activeEvent); the      *)
(* change gives fetchData a new identity and the effect calls it, while    *)
(* the invocation already running goes on with the filters it closed over. *)
(* At most two invocations run at a time.                                  *)
(***************************************************************************)
FiltersRendered == ~(dash_isLoading /\ dash_activeEvent = Null)

setFilterMunicipality_inFlight(muni) ==
    /\ route = "/"
    /\ FiltersRendered
    /\ fd.pc # "idle"
    /\ fdEarlier.pc = "idle"
    /\ filterBarangay = "all"
    /\ muni # filterMunicipality
    /\ filterMunicipality' = muni
    /\ filterBarangay' = "all"
    /\ dash_isLoading' = TRUE
    /\ fdEarlier' = fd
    /\ fd' = Started(muni, "all")
    /\ UNCHANGED <<reportVars, remoteVars, cacheVars, odmVars, appVars, suVars, rpVars, dash_activeEvent, stats, statusGroups,
                   evacCenterGroups, evacStats, totalAffected, allAffectedIds, resolved>>

setFilterBarangay_inFlight(brgy) ==
    /\ route = "/"
    /\ FiltersRendered
    /\ fd.pc # "idle"
    /\ fdEarlier.pc = "idle"
    /\ filterMunicipality # "all"
    /\ brgy \in locationData[filterMunicipality] \cup {"all"}
    /\ brgy # filterBarangay
    /\ filterBarangay' = brgy
    /\ dash_isLoading' = TRUE
    /\ fdEarlier' = fd
    /\ fd' = Started(filterMunicipality, brgy)
    /\ UNCHANGED <<reportVars, remoteVars, cacheVars, odmVars, appVars, suVars, rpVars, filterMunicipality, dash_activeEvent,
                   stats, statusGroups, evacCenterGroups, evacStats, totalAffected,
                   allAffectedIds, resolved>>

\* The steps of the invocation that was started earlier: the same code.
earlier_fetchEvent(error) ==
    /\ fdEarlier.pc = "event"
    /\ IF error \/ activeEventRemote = Null
       THEN /\ dash_isLoading' = FALSE
            /\ fdEarlier' = NoFetch
            /\ UNCHANGED dash_activeEvent
       ELSE /\ dash_activeEvent' = activeEventRemote
            /\ fdEarlier' = [fdEarlier EXCEPT !.pc = "residents"] @@ [eventData |-> activeEventRemote]
            /\ UNCHANGED dash_isLoading
    /\ UNCHANGED <<reportVars, remoteVars, cacheVars, odmVars, appVars, suVars, rpVars, fd, filterMunicipality, filterBarangay,
                   stats, statusGroups, evacCenterGroups, evacStats, totalAffected,
                   allAffectedIds, resolved>>

earlier_fetchResidents(error) ==
    /\ fdEarlier.pc = "residents"
    /\ LET residentIds == SeqOfSet(ResidentQuery(fdEarlier.filterMunicipality, fdEarlier.filterBarangay)) IN
       IF error
       THEN /\ dash_isLoading' = FALSE
            /\ fdEarlier' = NoFetch
            /\ UNCHANGED <<stats, statusGroups, evacCenterGroups, evacStats,
                           totalAffected, allAffectedIds, resolved>>
       ELSE /\ totalAffected' = Len(residentIds)
            /\ allAffectedIds' = residentIds
            /\ IF Len(residentIds) = 0
               THEN /\ stats' = [NoStats EXCEPT !["Unknown"] = Len(residentIds)]
                    /\ statusGroups' = [s \in ResidentStatus |-> <<>>]
                    /\ evacCenterGroups' = [c \in CenterIds |-> <<>>]
                    /\ evacStats' = <<>>
                    /\ dash_isLoading' = FALSE
                    /\ fdEarlier' = NoFetch
                    /\ resolved' = [residentIds |-> residentIds, logs |-> <<>>,
                                    event_id |-> fdEarlier.eventData, latestLogs |-> <<>>]
               ELSE /\ fdEarlier' = [fdEarlier EXCEPT !.pc = "logs"] @@ [residentIds |-> residentIds]
                    /\ UNCHANGED <<stats, statusGroups, evacCenterGroups, evacStats,
                                   dash_isLoading, resolved>>
    /\ UNCHANGED <<reportVars, remoteVars, cacheVars, odmVars, appVars, suVars, rpVars, fd, filterMunicipality, filterBarangay,
                   dash_activeEvent>>

earlier_fetchLogs(error) ==
    /\ fdEarlier.pc = "logs"
    /\ \E logs \in Orders(LogQuery(fdEarlier.eventData, fdEarlier.residentIds)) :
       IF error
       THEN /\ dash_isLoading' = FALSE
            /\ fdEarlier' = NoFetch
            /\ UNCHANGED <<stats, statusGroups, evacCenterGroups, resolved>>
       ELSE /\ stats' = NewStats(fdEarlier.residentIds, LatestLogs(logs))
            /\ statusGroups' = NewGroups(fdEarlier.residentIds, LatestLogs(logs))
            /\ evacCenterGroups' = NewEvacGroups(LatestLogs(logs))
            /\ resolved' = [residentIds |-> fdEarlier.residentIds, logs |-> logs,
                            event_id |-> fdEarlier.eventData, latestLogs |-> LatestLogs(logs)]
            /\ fdEarlier' = [fdEarlier EXCEPT !.pc = "centers"] @@ [latestLogs |-> LatestLogs(logs)]
            /\ UNCHANGED dash_isLoading
    /\ UNCHANGED <<reportVars, remoteVars, cacheVars, odmVars, appVars, suVars, rpVars, fd, filterMunicipality, filterBarangay,
                   dash_activeEvent, evacStats, totalAffected, allAffectedIds>>

earlier_fetchCenters(error) ==
    /\ fdEarlier.pc = "centers"
    /\ LET centers == SeqOfSet(CenterIds) IN
          evacStats' = IF error THEN evacStats
                       ELSE SortChartData(EvacChartData(centers, fdEarlier.latestLogs))
    /\ dash_isLoading' = FALSE
    /\ fdEarlier' = NoFetch
    /\ UNCHANGED <<reportVars, remoteVars, cacheVars, odmVars, appVars, suVars, rpVars, fd, filterMunicipality, filterBarangay,
                   dash_activeEvent, stats, statusGroups, evacCenterGroups,
                   totalAffected, allAffectedIds, resolved>>

(***************************************************************************)
(* ReportsPage: handleGenerateReport.  get_residents_with_status runs in   *)
(* the database: what it returns is any list of residents, each with one   *)
(* of the statuses or none.                                                *)
(***************************************************************************)
RECURSIVE SeqsUpTo(_, _)
SeqsUpTo(S, n) ==
    IF n = 0 THEN {<<>>}
    ELSE SeqsUpTo(S, n - 1) \cup {Append(q, x) : q \in SeqsUpTo(S, n - 1), x \in S}

\* The status column of the lists residentsRes.data can be.
ResidentsWithStatus == SeqsUpTo(ResidentStatus \cup {Null}, MaxReportResidents)

RECURSIVE CountStatuses(_, _)
\* residents.forEach: a status that is a key of stats is counted under it,
\* anything else under Unknown.
CountStatuses(residents, counted) ==
    IF residents = <<>> THEN counted
    ELSE LET status == Head(residents)
             key == IF status # Null /\ status \in DOMAIN counted THEN status ELSE "Unknown"
         IN CountStatuses(Tail(residents), [counted EXCEPT ![key] = @ + 1])

\* stats.Unknown += (residents.length > 0 ? 0 : count || 0) - residents.length
AddUnknown(counted, residents, count) ==
    [counted EXCEPT !["Unknown"] = @ + (IF Len(residents) > 0 THEN 0 ELSE count) - Len(residents)]

\* The button of the page; offline it only shows a toast.
handleGenerateReport ==
    /\ route = "/reports"
    /\ gr.pc = "idle"
    /\ ~report_isLoading
    /\ IF ~isOnline
       THEN UNCHANGED reportVars
       ELSE /\ report_isLoading' = TRUE
            /\ generatedReport' = Null
            /\ gr' = [pc |-> "event"]
    /\ UNCHANGED <<remoteVars, cacheVars, odmVars, appVars, suVars, rpVars, dashVars>>

\* finally of handleGenerateReport.
gr_finally ==
    /\ report_isLoading' = FALSE
    /\ gr' = NoFetch

\* catch: setGeneratedReport(`Failed to generate report: ...`), then finally.
gr_catch ==
    /\ generatedReport' = "Failed to generate report"
    /\ gr_finally

\* 1. Get active event.
gr_fetchEvent(error) ==
    /\ gr.pc = "event"
    /\ IF error \/ activeEventRemote = Null
       THEN gr_catch
       ELSE /\ gr' = [pc |-> "data"]
            /\ UNCHANGED <<report_isLoading, generatedReport>>
    /\ UNCHANGED <<remoteVars, cacheVars, odmVars, appVars, suVars, rpVars, dashVars>>

\* 2. and 3.: the three fetches, then the count of the statuses; the count of
\* all residents is awaited only when the list is empty.
gr_fetchData(error) ==
    /\ gr.pc = "data"
    /\ \E residents \in ResidentsWithStatus :
          IF error
          THEN gr_catch
          ELSE /\ gr' = IF Len(residents) > 0
                        THEN [pc |-> "generate", residents |-> residents,
                              stats |-> AddUnknown(CountStatuses(residents, NoStats), residents, 0)]
                        ELSE [pc |-> "count", residents |-> residents,
                              stats |-> CountStatuses(residents, NoStats)]
               /\ UNCHANGED <<report_isLoading, generatedReport>>
    /\ UNCHANGED <<remoteVars, cacheVars, odmVars, appVars, suVars, rpVars, dashVars>>

\* (await supabase.from('residents').select('id', { count: 'exact' })).count || 0
gr_countResidents(error) ==
    /\ gr.pc = "count"
    /\ LET count == IF error THEN 0 ELSE Cardinality(ResidentIds) IN
          gr' = [gr EXCEPT !.pc = "generate", !.stats = AddUnknown(gr.stats, gr.residents, count)]
    /\ UNCHANGED <<report_isLoading, generatedReport, remoteVars, cacheVars, odmVars, appVars, suVars, rpVars, dashVars>>

\* 4. generateReport(reportType, {event, stats, incidents, evacCenters}),
\* setGeneratedReport(reportText), then finally.
gr_generate ==
    /\ gr.pc = "generate"
    /\ generatedReport' = "reportText"
    /\ gr_finally
    /\ UNCHANGED <<remoteVars, cacheVars, odmVars, appVars, suVars, rpVars, dashVars>>

(***************************************************************************)
(* OfflineDataManagement (settings page): checkCache, handleDownload and   *)
(* handleClearCache.  One handleDownload and one handleClearCache run at a *)
(* time.                                                                   *)
(***************************************************************************)
LocaleTimes == {"t1"}

\* checkCache: the mount effect reads the metadata; a rejection is not caught.
checkCache(error) ==
    /\ cc.pc = "check"
    /\ CanRead("metadata")
    /\ IF error
       THEN UNCHANGED <<db, cacheInfo>>
       ELSE /\ db' = "open"
            /\ cacheInfo' = IF getMetadata("cacheInfo") # {}
                            THEN (CHOOSE meta \in getMetadata("cacheInfo") : TRUE).value
                            ELSE NoCacheInfo
    /\ cc' = NoFetch
    /\ UNCHANGED <<reportVars, remoteVars, idb, tx, calls, dl, cl, isDownloading, appVars,
                   suVars, rpVars, dashVars>>

\* handleDownload starts with the municipality selected in the form.
handleDownload(selectedMuni) ==
    /\ route = "/settings"
    /\ ~isDownloading
    /\ dl.pc = "idle"
    /\ isDownloading' = TRUE
    /\ dl' = [pc |-> "residents", mounted |-> TRUE, selectedMuni |-> selectedMuni]
    /\ UNCHANGED <<reportVars, remoteVars, cacheVars, cl, cc, cacheInfo, appVars, suVars, rpVars, dashVars>>

\* catch and finally of handleDownload.
dl_finally ==
    /\ isDownloading' = IF dl.mounted THEN FALSE ELSE isDownloading
    /\ dl' = NoFetch

\* .from('residents').select('*').eq('municipality', selectedMuni)
MunicipalityQuery(selectedMuni) ==
    SeqOfSet({r \in ResidentIds : residentsTable[r].municipality = selectedMuni})

\* handleDownload caching the residents before it fetches the centers.
dl_fetchResidents_caching(error) ==
    /\ dl.pc = "residents"
    /\ IF error
       THEN dl_finally /\ UNCHANGED <<db, calls>>
       ELSE /\ dl' = [dl EXCEPT !.pc = "centers"] @@
                     [residents |-> [i \in DOMAIN MunicipalityQuery(dl.selectedMuni) |->
                                        residentRow(MunicipalityQuery(dl.selectedMuni)[i])]]
            /\ Call("download", cacheData("residents",
                        [i \in DOMAIN MunicipalityQuery(dl.selectedMuni) |->
                            residentRow(MunicipalityQuery(dl.selectedMuni)[i])]), FALSE)
            /\ UNCHANGED isDownloading
    /\ UNCHANGED <<reportVars, remoteVars, idb, tx, cl, cc, cacheInfo, appVars, suVars, rpVars, dashVars>>

dl_fetchResidents(error) ==
    /\ dl.pc = "residents"
    /\ IF error
       THEN dl_finally
       ELSE /\ dl' = [dl EXCEPT !.pc = "centers"] @@
                     [residents |-> [i \in DOMAIN MunicipalityQuery(dl.selectedMuni) |->
                                        residentRow(MunicipalityQuery(dl.selectedMuni)[i])]]
            /\ UNCHANGED isDownloading
    /\ UNCHANGED <<reportVars, remoteVars, cacheVars, cl, cc, cacheInfo, appVars, suVars, rpVars, dashVars>>

dl_fetchCenters(error) ==
    /\ dl.pc = "centers"
    /\ IF error
       THEN dl_finally
       ELSE /\ dl' = [dl EXCEPT !.pc = "cacheResidents"] @@
                     [evacCenters |-> [i \in 1 .. Cardinality(CenterIds) |->
                                          centerRow(SeqOfSet(CenterIds)[i])]]
            /\ UNCHANGED isDownloading
    /\ UNCHANGED <<reportVars, remoteVars, cacheVars, cl, cc, cacheInfo, appVars, suVars, rpVars, dashVars>>

\* await dbService.cacheData('residents', residents)
dl_cacheResidents(error) ==
    /\ dl.pc = "cacheResidents"
    /\ Call("download", cacheData("residents", dl.residents), error)
    /\ dl' = [dl EXCEPT !.pc = "awaitResidents"]
    /\ UNCHANGED <<reportVars, remoteVars, idb, tx, cl, cc, isDownloading, cacheInfo,
                   appVars, suVars, rpVars, dashVars>>

\* await dbService.cacheData('evac_centers', evacCenters)
dl_cacheCenters(error) ==
    /\ dl.pc = "awaitResidents"
    /\ calls["download"].outcome = "resolved"
    /\ Call("download", cacheData("evac_centers", dl.evacCenters), error)
    /\ dl' = [dl EXCEPT !.pc = "awaitCenters"]
    /\ UNCHANGED <<reportVars, remoteVars, idb, tx, cl, cc, isDownloading, cacheInfo,
                   appVars, suVars, rpVars, dashVars>>

\* await dbService.setMetadata('cacheInfo', newCacheInfo)
dl_setMetadata(timestamp, error) ==
    /\ dl.pc = "awaitCenters"
    /\ calls["download"].outcome = "resolved"
    /\ LET newCacheInfo == [municipality |-> dl.selectedMuni, timestamp |-> timestamp] IN
          /\ Call("download", setMetadata("cacheInfo", newCacheInfo), error)
          /\ dl' = [dl EXCEPT !.pc = "awaitMetadata"] @@ [newCacheInfo |-> newCacheInfo]
    /\ UNCHANGED <<reportVars, remoteVars, idb, tx, cl, cc, isDownloading, cacheInfo,
                   appVars, suVars, rpVars, dashVars>>

\* setCacheInfo(newCacheInfo), then finally.
dl_done ==
    /\ dl.pc = "awaitMetadata"
    /\ calls["download"].outcome = "resolved"
    /\ cacheInfo' = IF dl.mounted THEN dl.newCacheInfo ELSE cacheInfo
    /\ dl_finally
    /\ calls' = [calls EXCEPT !["download"] = NoCall]
    /\ UNCHANGED <<reportVars, remoteVars, db, idb, tx, cl, cc, appVars, suVars,
                   rpVars, dashVars>>

\* An awaited cache operation rejects: catch, then finally.
dl_catch ==
    /\ dl.pc \in {"awaitResidents", "awaitCenters", "awaitMetadata"}
    /\ calls["download"].outcome = "rejected"
    /\ dl_finally
    /\ calls' = [calls EXCEPT !["download"] = NoCall]
    /\ UNCHANGED <<reportVars, remoteVars, db, idb, tx, cl, cc, cacheInfo, appVars,
                   suVars, rpVars, dashVars>>

\* handleClearCache: the Clear button is there while cacheInfo is shown.
handleClearCache(error) ==
    /\ route = "/settings"
    /\ cacheInfo # NoCacheInfo
    /\ cl.pc = "idle"
    /\ Call("clear", clearCache, error)
    /\ cl' = [pc |-> "await", mounted |-> TRUE]
    /\ UNCHANGED <<reportVars, remoteVars, idb, tx, dl, cc, isDownloading, cacheInfo,
                   appVars, suVars, rpVars, dashVars>>

\* setCacheInfo(null)
cl_done ==
    /\ cl.pc = "await"
    /\ calls["clear"].outcome = "resolved"
    /\ cacheInfo' = IF cl.mounted THEN NoCacheInfo ELSE cacheInfo
    /\ cl' = NoFetch
    /\ calls' = [calls EXCEPT !["clear"] = NoCall]
    /\ UNCHANGED <<reportVars, remoteVars, db, idb, tx, dl, cc, isDownloading, appVars,
                   suVars, rpVars, dashVars>>

cl_catch ==
    /\ cl.pc = "await"
    /\ calls["clear"].outcome = "rejected"
    /\ cl' = NoFetch
    /\ calls' = [calls EXCEPT !["clear"] = NoCall]
    /\ UNCHANGED <<reportVars, remoteVars, db, idb, tx, dl, cc, isDownloading,
                   cacheInfo, appVars, suVars, rpVars, dashVars>>

\* The statuses the form submits in the behaviours explored: the handler treats
\* every status but 'Evacuated' alike.
SubmittedStatuses == StatusOptions \ {"Injured", "Deceased"}

\* The centers the form submits in the behaviours SpecDash explores.
SubmittedCenters == {"C1", "C2"}

(***************************************************************************)
(* SpecDash.                                                               *)
(***************************************************************************)
NextDash ==
    \/ activateEvent("E2")
    \/ su_loadOnline
    \/ \E s \in SubmittedStatuses, c \in SubmittedCenters \cup {""}, error \in BOOLEAN :
            handleUpdateStatus(s, c, error)
    \/ \E to \in {"/", "/update", "/residents"} : navigate(to)
    \/ \E m \in Municipalities \cup {"all"} : setFilterMunicipality(m)
    \/ \E b \in UNION {locationData[m] : m \in Municipalities} \cup {"all"} :
            setFilterBarangay(b)
    \/ \E error \in BOOLEAN : fetchEvent(error)
    \/ \E error \in BOOLEAN : fetchResidents(error)
    \/ \E error \in BOOLEAN : fetchLogs(error)
    \/ \E error \in BOOLEAN : fetchCenters(error)
    \/ \E error \in BOOLEAN : rp_getActiveEvent(error)
    \/ \E error \in BOOLEAN : rp_fetchResidents(error)
    \/ \E error \in BOOLEAN : rp_fetchLogs(error)

SpecDash == Init /\ [][NextDash]_vars

(***************************************************************************)
(* SpecCache: the local cache, the settings page that fills and clears it, *)
(* and the two pages that read it when offline.  The remote log holds one  *)
(* entry of the active event.                                              *)
(***************************************************************************)
InitCache ==
    /\ statusLog = StatusLogRows(<<"R1">>, "Safe", "", "E1", [ms |-> 0, us |-> 0])
    /\ now = [ms |-> 0, us |-> 0]
    /\ activeEventRemote = "E1"
    /\ isOnline = TRUE
    /\ route = "/settings"
    /\ cache_initial
    /\ odm_initial
    /\ cc = [pc |-> "check"]
    /\ su_initial
    /\ rp_initial
    /\ report_initial
    /\ dash_initial
    /\ fd = NoFetch

NextCache ==
    \/ \E to \in {"/update", "/residents", "/settings"} : navigate(to)
    \/ \E online \in BOOLEAN : setIsOnline(online)
    \/ su_loadOnline
    \/ \E error \in BOOLEAN : su_loadCachedResidents(error)
    \/ \E error \in BOOLEAN : su_loadCachedCenters(error)
    \/ \E error \in BOOLEAN : rp_getActiveEvent(error)
    \/ \E error \in BOOLEAN : rp_fetchResidents(error)
    \/ \E error \in BOOLEAN : rp_fetchLogs(error)
    \/ \E error \in BOOLEAN : rp_loadCached(error)
    \/ \E error \in BOOLEAN : checkCache(error)
    \/ \E m \in Municipalities : handleDownload(m)
    \/ \E error \in BOOLEAN : dl_fetchResidents(error)
    \/ \E error \in BOOLEAN : dl_fetchCenters(error)
    \/ \E error \in BOOLEAN : dl_cacheResidents(error)
    \/ \E error \in BOOLEAN : dl_cacheCenters(error)
    \/ \E t \in LocaleTimes, error \in BOOLEAN : dl_setMetadata(t, error)
    \/ dl_done
    \/ dl_catch
    \/ \E error \in BOOLEAN : handleClearCache(error)
    \/ cl_done
    \/ cl_catch
    \/ \E c \in Callers : txBegin(c)
    \/ txRequest
    \/ txCommit
    \/ txAbort

SpecCache == InitCache /\ [][NextCache]_vars

(***************************************************************************)
(* SpecLog: every operation of the app that runs next to the status log:   *)
(* status updates online and offline, the loads of the dashboard, of the   *)
(* registry and of the status update page, downloads and cache clears.     *)
(* The remote reads of the loads and of the download succeed, and the      *)
(* dashboard keeps its filters.                                            *)
(***************************************************************************)
NextLog ==
    \/ \E to \in {"/", "/update", "/residents", "/settings"} : navigate(to)
    \/ \E online \in BOOLEAN : setIsOnline(online)
    \/ su_loadOnline
    \/ \E error \in BOOLEAN : su_loadCachedResidents(error)
    \/ su_loadCachedCenters(FALSE)
    \/ handleUpdateStatus("Safe", "", FALSE)
    \/ fetchEvent(FALSE)
    \/ fetchResidents(FALSE)
    \/ fetchLogs(FALSE)
    \/ fetchCenters(FALSE)
    \/ rp_getActiveEvent(FALSE)
    \/ rp_fetchResidents(FALSE)
    \/ rp_fetchLogs(FALSE)
    \/ rp_loadCached(FALSE)
    \/ checkCache(FALSE)
    \/ handleDownload("M1")
    \/ dl_fetchResidents(FALSE)
    \/ dl_fetchCenters(FALSE)
    \/ dl_cacheResidents(FALSE)
    \/ dl_cacheCenters(FALSE)
    \/ \E t \in LocaleTimes : dl_setMetadata(t, FALSE)
    \/ dl_done
    \/ handleClearCache(FALSE)
    \/ cl_done
    \/ \E c \in Callers : txBegin(c)
    \/ txRequest
    \/ txCommit

SpecLog == Init /\ [][NextLog]_vars

(***************************************************************************)
(* SpecStats: the dashboard's loads over the logs in which each resident   *)
(* has no entry or is evacuated to one of the centers.                     *)
(***************************************************************************)
\* The row of an earlier update that evacuated a resident to a center, or no
\* row for ''.
EvacuatedTo(resident, center) ==
    IF center = "" THEN <<>>
    ELSE StatusLogRows(<<resident>>, "Evacuated", center, "E1", [ms |-> 0, us |-> 0])

InitStats ==
    /\ \E c1 \in CenterIds \cup {""}, c2 \in CenterIds \cup {""} :
          statusLog = EvacuatedTo("R1", c1) \o EvacuatedTo("R2", c2)
    /\ now = [ms |-> 0, us |-> 0]
    /\ activeEventRemote = "E1"
    /\ isOnline = TRUE
    /\ route = "/"
    /\ cache_initial
    /\ odm_initial
    /\ cc = NoFetch
    /\ su_initial
    /\ rp_initial
    /\ report_initial
    /\ dash_initial
    /\ fd = Started("all", "all")

NextStats ==
    \/ \E m \in Municipalities \cup {"all"} : setFilterMunicipality(m)
    \/ \E b \in UNION {locationData[m] : m \in Municipalities} \cup {"all"} :
            setFilterBarangay(b)
    \/ \E error \in BOOLEAN : fetchEvent(error)
    \/ \E error \in BOOLEAN : fetchResidents(error)
    \/ \E error \in BOOLEAN : fetchLogs(error)
    \/ \E error \in BOOLEAN : fetchCenters(error)

SpecStats == InitStats /\ [][NextStats]_vars

(***************************************************************************)
(* SpecRace: the dashboard over a fixed log, with filters that change      *)
(* while fetchData runs and no fetch that fails.                           *)
(***************************************************************************)
NextRace ==
    \/ \E m \in Municipalities \cup {"all"} : setFilterMunicipality(m)
    \/ \E b \in UNION {locationData[m] : m \in Municipalities} \cup {"all"} :
            setFilterBarangay(b)
    \/ \E m \in Municipalities \cup {"all"} : setFilterMunicipality_inFlight(m)
    \/ \E b \in UNION {locationData[m] : m \in Municipalities} \cup {"all"} :
            setFilterBarangay_inFlight(b)
    \/ fetchEvent(FALSE)
    \/ fetchResidents(FALSE)
    \/ fetchLogs(FALSE)
    \/ fetchCenters(FALSE)
    \/ earlier_fetchEvent(FALSE)
    \/ earlier_fetchResidents(FALSE)
    \/ earlier_fetchLogs(FALSE)
    \/ earlier_fetchCenters(FALSE)

SpecRace == InitStats /\ [][NextRace]_vars

(***************************************************************************)
(* SpecReport: the reports page, online.                                   *)
(***************************************************************************)
InitReport ==
    /\ statusLog = <<>>
    /\ now = [ms |-> 0, us |-> 0]
    /\ activeEventRemote = "E1"
    /\ isOnline = TRUE
    /\ route = "/reports"
    /\ cache_initial
    /\ odm_initial
    /\ cc = NoFetch
    /\ su_initial
    /\ rp_initial
    /\ report_initial
    /\ dash_initial
    /\ fd = NoFetch

NextReport ==
    \/ handleGenerateReport
    \/ \E error \in BOOLEAN : gr_fetchEvent(error)
    \/ \E error \in BOOLEAN : gr_fetchData(error)
    \/ \E error \in BOOLEAN : gr_countResidents(error)
    \/ gr_generate

SpecReport == InitReport /\ [][NextReport]_vars

(***************************************************************************)
(* SpecStore: the operations of the cache service called with any of a few *)
(* arguments, by two callers at a time, on whatever the calls before left  *)
(* in the stores.                                                          *)
(***************************************************************************)
\* A caller that awaits no operation calls one; the database opens.
dbService(caller, transactions) ==
    /\ calls[caller].outcome # "pending"
    /\ Call(caller, transactions, FALSE)
    /\ UNCHANGED <<reportVars, remoteVars, idb, tx, odmVars, appVars, suVars, rpVars, dashVars>>

\* The record lists cacheData is called with, per store.
StoreInputs(storeName) ==
    IF storeName = "residents" THEN {<<>>, <<residentRow("R1")>>}
    ELSE {<<>>, <<centerRow("C1")>>}

\* The keys and the value setMetadata is called with.
MetadataInputs == {"cacheInfo", "lastSync"}

NextStore ==
    \/ \E c \in Callers, n \in {"residents", "evac_centers"} :
          \E data \in StoreInputs(n) : dbService(c, cacheData(n, data))
    \/ \E c \in Callers, key \in MetadataInputs :
          dbService(c, setMetadata(key, [municipality |-> "M1", timestamp |-> "t1"]))
    \/ \E c \in Callers : dbService(c, clearCache)
    \/ \E c \in Callers : txBegin(c)
    \/ txRequest
    \/ txCommit
    \/ txAbort

SpecStore == InitCache /\ [][NextStore]_vars

(***************************************************************************)
(* Properties of the status resolution, checked under SpecDash.            *)
(***************************************************************************)
\* The rows of the log the last resolution worked on that belong to a resident.
EntriesOf(r) == {i \in DOMAIN resolved.logs : resolved.logs[i].resident_id = r}

\* The rows of a resident with the maximum stored timestamp.
LatestEntriesOf(r) ==
    {i \in EntriesOf(r) :
        \A j \in EntriesOf(r) : TsLeq(resolved.logs[j].timestamp, resolved.logs[i].timestamp)}

\* C1: after a resolution of the dashboard, every resident of the filtered set
\* with two or more log entries of the active event is listed under the status
\* of an entry with the maximum timestamp among its entries.
C1_LatestWins ==
    resolved.event_id # Null =>
        \A r \in Range(resolved.residentIds) :
            Cardinality(EntriesOf(r)) >= 2 =>
                \E i \in LatestEntriesOf(r) : r \in Range(statusGroups[resolved.logs[i].status])

\* The rows of the remote log of an event that belong to a resident.
RowsOf(eventId, r) ==
    {i \in DOMAIN statusLog : statusLog[i].event_id = eventId /\ statusLog[i].resident_id = r}

\* The registry has merged the logs of an event into its residents.
rp_merged == rp.pc = "idle" /\ rp_allResidents # <<>> /\ rp # NoFetch /\ ~rp.failed

\* C2: a resident with no log entry of the active event resolves to Unknown on
\* the dashboard (counted in stats.Unknown, listed in statusGroups.Unknown) and
\* in the registry, whatever entries it has under other events; and a status
\* other than Unknown always comes from an entry of the active event.
C2_EventIsolation ==
    /\ resolved.event_id # Null =>
          /\ \A r \in Range(resolved.residentIds) :
                RowsOf(resolved.event_id, r) = {} => r \in Range(statusGroups["Unknown"])
          /\ stats["Unknown"] = Cardinality({r \in Range(resolved.residentIds) :
                                                RowsOf(resolved.event_id, r) = {}})
          /\ \A s \in StatusOptions : \A r \in Range(statusGroups[s]) :
                \E i \in RowsOf(resolved.event_id, r) : statusLog[i].status = s
    /\ rp_merged =>
          \A k \in DOMAIN rp_allResidents :
             LET r == rp_allResidents[k].id
                 status == rp_allResidents[k].status
             IN /\ RowsOf(rp.eventId, r) = {} => status = "Unknown"
                /\ status # "Unknown" =>
                      \E i \in RowsOf(rp.eventId, r) : statusLog[i].status = status

\* A resident with entries under another event only is listed as Unknown.
C2_Witness ==
    /\ resolved.event_id = "E2"
    /\ RowsOf("E1", "R1") # {}
    /\ RowsOf("E2", "R1") = {}
    /\ "R1" \in Range(statusGroups["Unknown"])
    /\ stats["Unknown"] = 1

\* C3: after a resolution of the dashboard that completed without a fetch
\* error, the six status counts sum to the number of residents of the
\* filtered set.
C3_CountsSum ==
    resolved.event_id # Null =>
        SumOver(stats, ResidentStatus) = Len(resolved.residentIds)

\* Two residents in the filtered set, one with a log entry and one without.
C3_Witness ==
    /\ resolved.event_id # Null
    /\ Len(resolved.residentIds) = 2
    /\ stats["Unknown"] = 1
    /\ stats["Evacuated"] = 1

\* C4: after a resolution of the dashboard, the ids listed over all the
\* evacuation-center groups are as many as the Evacuated count.
C4_EvacGroups ==
    resolved.event_id # Null =>
        SumOver([c \in CenterIds |-> Len(evacCenterGroups[c])], CenterIds) = stats["Evacuated"]

\* Two evacuated residents, in two centers.
C4_Witness ==
    /\ resolved.event_id # Null
    /\ stats["Evacuated"] = 2
    /\ Len(evacCenterGroups["C1"]) = 1
    /\ Len(evacCenterGroups["C2"]) = 1

(***************************************************************************)
(* Properties of the local cache, checked under SpecCache.                 *)
(***************************************************************************)
\* The step at which the call a caller awaits resolves, or rejects.
Resolves(caller) == calls[caller].outcome = "pending" /\ calls'[caller].outcome = "resolved"

Rejects(caller) == calls[caller].outcome = "pending" /\ calls'[caller].outcome = "rejected"

\* The step at which the cacheData call of handleDownload for a store resolves.
CacheDataResolves(storeName) ==
    /\ Resolves("download")
    /\ dl.pc = IF storeName = "residents" THEN "awaitResidents" ELSE "awaitCenters"

\* The records that call was given.
CacheDataRecords(storeName) == IF storeName = "residents" THEN dl.residents ELSE dl.evacCenters

\* C5: once cacheData(name, records) has resolved, getCachedData(name) returns
\* a list whose records are those of records, in any order.
C5_RoundTrip ==
    [][\A n \in {"residents", "evac_centers"} :
          CacheDataResolves(n) =>
              /\ Range(getCachedData(n)') = Range(CacheDataRecords(n))
              /\ Len(getCachedData(n)') = Len(CacheDataRecords(n))]_vars

\* handleDownload has cached the two centers it fetched.
C5_Witness ==
    /\ dl.pc = "awaitCenters"
    /\ calls["download"].outcome = "resolved"
    /\ Len(dl.evacCenters) = Cardinality(CenterIds)
    /\ Range(getCachedData("evac_centers")) = Range(dl.evacCenters)

\* C6: once a cacheData(name, B) that follows a cacheData(name, A) has
\* resolved, no record the store held before that is not in B remains; after
\* a download of a municipality every cached resident is of that municipality.
C6_Replace ==
    [][\A n \in {"residents", "evac_centers"} :
          CacheDataResolves(n) =>
              /\ \A rec \in calls["download"].began[n] :
                    rec \notin Range(CacheDataRecords(n)) => rec \notin Range(getCachedData(n)')
              /\ n = "residents" =>
                    \A rec \in Range(getCachedData(n)') : rec.municipality = dl.selectedMuni]_vars

\* The residents of M2 have replaced those of M1.
C6_Witness ==
    /\ dl.pc = "awaitResidents"
    /\ calls["download"].outcome = "resolved"
    /\ dl.selectedMuni = "M2"
    /\ calls["download"].began["residents"] = {residentRow("R1")}
    /\ idb["residents"] = {residentRow("R2")}

\* The keys of the metadata store.
MetadataKeys == {"cacheInfo"}

\* C7: once clearCache has resolved, getCachedData returns an empty list for
\* residents and for evac_centers, and getMetadata returns no record for any
\* key, whatever the stores held.
C7_Cleared ==
    [][Resolves("clear") =>
          /\ getCachedData("residents")' = <<>>
          /\ getCachedData("evac_centers")' = <<>>
          /\ \A key \in MetadataKeys : getMetadata(key)' = {}]_vars

\* clearCache has emptied three stores that each held a record.
C7_Witness ==
    /\ calls["clear"].outcome = "resolved"
    /\ \A n \in STORES : calls["clear"].began[n] # {}
    /\ \A n \in STORES : idb[n] = {}

\* A cacheData call of handleDownload on a store is not settled yet.
CacheDataInFlight(storeName) ==
    /\ calls["download"].outcome = "pending"
    /\ storeName \in calls["download"].stores

\* The complete contents a read of a store may return: what the store holds, or,
\* when a cacheData call on it is under way, what it held when that call began.
CompleteContents(storeName) ==
    IF CacheDataInFlight(storeName) /\ calls["download"].begun
    THEN SortedRecords(storeName, calls["download"].began[storeName])
    ELSE SortedRecords(storeName, idb[storeName])

\* C8: a getCachedData that runs while a cacheData on the same store is under
\* way returns the complete contents the store had before that call (and one
\* that runs after it the complete new contents), never a store that is
\* cleared or filled in part.
C8_NoPartialRead ==
    [][/\ (su.pc = "load" /\ su'.pc = "centers") =>
              su'.cachedResidents = CompleteContents("residents")
       /\ (su.pc = "centers" /\ su'.pc = "idle" /\ su' # NoFetch) =>
              su'.cachedCenters = CompleteContents("evac_centers")
       /\ (rp.pc = "cached" /\ rp'.pc = "idle" /\ rp' # NoFetch) =>
              rp'.cachedResidents = CompleteContents("residents")]_vars

\* The registry has read the residents while a cacheData of the residents is
\* under way, and got the residents cached before.
C8_Witness ==
    /\ rp.pc = "idle"
    /\ ~isOnline
    /\ ~rp_isLoading
    /\ CacheDataInFlight("residents")
    /\ rp_allResidents # <<>>
    /\ Ids(rp_allResidents) = Ids(getCachedData("residents"))

\* A clearCache call is under way and has emptied some store, not all.
PartlyCleared ==
    /\ calls["clear"].outcome = "pending"
    /\ calls["clear"].begun
    /\ idb # calls["clear"].began
    /\ \E n \in STORES : idb[n] # {}

\* C9: clearCache empties the three stores as one: no read can run while some
\* of them are emptied and others not, and a clearCache that fails leaves the
\* three stores as they were.
C9_AtomicClear ==
    [][/\ \A n \in STORES : CanRead(n) => ~PartlyCleared
       /\ Resolves("clear") => \A n \in STORES : idb'[n] = {}
       /\ Rejects("clear") =>
             idb' = IF calls["clear"].begun THEN calls["clear"].began ELSE idb]_vars

\* A clearCache that had begun has failed, and the three stores hold their records.
C9_Witness ==
    /\ calls["clear"].outcome = "rejected"
    /\ calls["clear"].begun
    /\ \A n \in STORES : idb[n] # {}
    /\ idb = calls["clear"].began

\* What an offline load shows for the cache as it is: its residents, without status.
OfflineResidents ==
    [i \in DOMAIN getCachedData("residents") |->
        Shown(getCachedData("residents")[i].id, Undefined)]

Appended == SubSeq(statusLog', Len(statusLog) + 1, Len(statusLog'))

\* C11: status-log entries are created only by the record-status-update
\* action while online: a step changes the log only on the status update
\* page, with the connectivity flag set, an active event set and residents
\* of the page selected, and it appends rows of that event for them; no
\* other operation and no update attempted offline, without an event or
\* without a selected resident inserts a row.
C11_OnlineUpdatesOnly ==
    [][statusLog' # statusLog =>
          /\ route = "/update"
          /\ isOnline
          /\ su_activeEvent # Null
          /\ statusLog' = statusLog \o Appended
          /\ Appended # <<>>
          /\ \A i \in DOMAIN Appended :
                /\ Appended[i].resident_id \in Range(Ids(su_allResidents))
                /\ Appended[i].event_id = su_activeEvent]_vars

\* The page is mounted offline and still holds an event and residents, so
\* that only the connectivity flag stops an update; the log holds the rows
\* of an earlier update made online.
C11_Witness ==
    /\ route = "/update"
    /\ ~isOnline
    /\ su_activeEvent # Null
    /\ su_allResidents # <<>>
    /\ statusLog # <<>>
    /\ Len(statusLog) < MaxLog

(***************************************************************************)
(* Properties of the offline loads and of the download, checked under      *)
(* SpecCache.                                                              *)
(***************************************************************************)
\* The step in which a read of the cache rejects during the offline load of
\* the status update page, or of the registry.
su_loadRejects == ~isOnline /\ su.pc \in {"load", "centers"} /\ su' = NoFetch

rp_loadRejects == ~isOnline /\ rp.pc = "cached" /\ rp' = NoFetch

\* C12: when a read of the local cache rejects during an offline load, the
\* load ends with the loading indicator cleared and an empty dataset, not
\* with a spinner that stays or with the data shown before.
C12_OfflineFailure ==
    [][/\ su_loadRejects => (~su_isLoading' /\ su_allResidents' = <<>>)
       /\ rp_loadRejects => (~rp_isLoading' /\ rp_allResidents' = <<>>)]_vars

\* The rows of the residents table a download for a municipality caches.
ResidentsOf(municipality) ==
    {residentRow(r) : r \in {x \in ResidentIds : residentsTable[x].municipality = municipality}}

\* C13: the cacheInfo metadata row describes what was last cached: while no
\* download and no clear is in progress, a cacheInfo row for municipality M
\* means the residents store holds exactly the residents of M, and no
\* cacheInfo row means the stores are empty; also after a download that
\* failed part-way through its three writes.
C13_CacheInfoDescribes ==
    (dl.pc = "idle" /\ cl.pc = "idle") =>
        IF getMetadata("cacheInfo") = {}
        THEN idb["residents"] = {} /\ idb["evac_centers"] = {}
        ELSE \A meta \in getMetadata("cacheInfo") :
                idb["residents"] = ResidentsOf(meta.value.municipality)

\* The step at which the setMetadata call of handleDownload resolves.
SetMetadataResolves == Resolves("download") /\ dl.pc = "awaitMetadata"

\* C14, as stated: setMetadata(key, v) followed by getMetadata(key) returns v.
C14_ReturnsValue ==
    [][SetMetadataResolves => getMetadata("cacheInfo")' = {dl.newCacheInfo}]_vars

\* C14, amended: setMetadata(key, v) followed by getMetadata(key) returns the
\* stored record { key, value: v }, whose value field is v; getMetadata of a
\* key returns no record once clearCache has resolved, and a key that had no
\* record gets one only by a setMetadata, or by a clearCache that is undone.
C14_MetadataRoundTrip ==
    [][\A key \in MetadataKeys :
          /\ SetMetadataResolves =>
                getMetadata(key)' = {[key |-> key, value |-> dl.newCacheInfo]}
          /\ Resolves("clear") => getMetadata(key)' = {}
          /\ (getMetadata(key) = {} /\ getMetadata(key)' # {}) =>
                tx.name \in {"setMetadata", "clearCache"}]_vars

\* The setMetadata of a download of M1 has resolved and the metadata store
\* holds the record of its cacheInfo.
C14_Witness ==
    /\ dl.pc = "awaitMetadata"
    /\ calls["download"].outcome = "resolved"
    /\ dl.newCacheInfo.municipality = "M1"
    /\ getMetadata("cacheInfo") = {[key |-> "cacheInfo", value |-> dl.newCacheInfo]}

(***************************************************************************)
(* Properties of the evacuation-center stats, checked under SpecStats.     *)
(***************************************************************************)
\* occupancy(a) / capacity(a) >= occupancy(b) / capacity(b) as the division
\* gives it: an occupied center of capacity 0 has a ratio above every number.
RatioGeq(a, b) ==
    IF a.capacity = 0 THEN a.occupancy > 0
    ELSE IF b.capacity = 0 THEN FALSE
    ELSE a.occupancy * b.capacity >= b.occupancy * a.capacity

\* C15, as stated: the stats list is sorted in descending order of the
\* ratio occupancy / capacity.
C15_SortedByRatio ==
    \A i \in DOMAIN evacStats : \A j \in DOMAIN evacStats :
        i < j => RatioGeq(evacStats[i], evacStats[j])

\* C15, amended: the stats list is sorted in descending order of the ratio
\* occupancy / capacity, where a center of capacity 0 counts as ratio 0: of
\* two entries with a capacity the one listed first has the ratio that is
\* not smaller, and an entry without capacity is listed before entries
\* without capacity or without occupants only.
C15_SortedByPercentage ==
    \A i \in DOMAIN evacStats : \A j \in DOMAIN evacStats :
        i < j =>
            LET a == evacStats[i]
                b == evacStats[j]
            IN IF b.capacity = 0 THEN TRUE
               ELSE IF a.capacity = 0 THEN b.occupancy = 0
               ELSE a.occupancy * b.capacity >= b.occupancy * a.capacity

\* The list holds the half-full C3 before the empty C1 and the occupied C2,
\* which has no capacity.
C15_Witness ==
    /\ Len(evacStats) = 3
    /\ evacStats[1].id = "C3" /\ evacStats[1].occupancy = 1
    /\ evacStats[2].id = "C1" /\ evacStats[2].occupancy = 0
    /\ evacStats[3].id = "C2" /\ evacStats[3].occupancy = 1

\* The residents the latest logs of a load place in a center.
EvacueesOf(latestLogs, c) ==
    {i \in DOMAIN latestLogs : /\ latestLogs[i].status = "Evacuated"
                               /\ latestLogs[i].evac_center_id = c}

\* C16: in the stats a load sets, a center with capacity 0 and occupancy 0
\* is left out and a center with capacity 0 and occupancy above 0 is listed,
\* with that occupancy.  (A load whose centers query fails sets no stats.)
C16_ZeroCapacity ==
    [][(fd.pc = "centers" /\ fd'.pc = "idle") =>
          \/ evacStats' = evacStats
          \/ \A c \in CenterIds :
                evacuationCentersTable[c].capacity = 0 =>
                    IF EvacueesOf(fd.latestLogs, c) = {}
                    THEN \A i \in DOMAIN evacStats' : evacStats'[i].id # c
                    ELSE \E i \in DOMAIN evacStats' :
                            /\ evacStats'[i].id = c
                            /\ evacStats'[i].occupancy =
                                   Cardinality(EvacueesOf(fd.latestLogs, c))]_vars

\* The stats list C2, which has no capacity, with its two evacuees.
C16_Witness ==
    /\ fd.pc = "idle"
    /\ \E i \in DOMAIN evacStats :
          /\ evacStats[i].id = "C2"
          /\ evacStats[i].capacity = 0
          /\ evacStats[i].occupancy = 2

(***************************************************************************)
(* Properties of the loads without an active event, checked under SpecDash.*)
(***************************************************************************)
\* The step in which the registry's fetchData ends for a null event id.
rp_endsWithoutEvent == rp.pc = "residents" /\ rp.eventId = Null /\ rp'.pc = "idle"

\* C17, as stated: a resolution asked for under a null event id while the
\* log holds data is aborted; it does not default the statuses.
C17_InvalidScope ==
    [][(rp_endsWithoutEvent /\ statusLog # <<>>) =>
          rp_allResidents' = rp_allResidents]_vars

\* C17, amended: no resolution reads the log under a null event id and none
\* fails for it: without an event id the registry reads no log and shows
\* every resident with status undefined (or, its residents query failing,
\* what it showed), and the dashboard ends its load with its stats, groups
\* and resolution untouched.
C17_NoEventNoLogs ==
    [][/\ rp'.pc = "logs" => rp'.eventId # Null
       /\ rp_endsWithoutEvent =>
             /\ ~rp_isLoading'
             /\ \/ rp_allResidents' = rp_allResidents
                \/ /\ Len(rp_allResidents') = Cardinality(ResidentIds)
                   /\ \A k \in DOMAIN rp_allResidents' :
                         rp_allResidents'[k].status = Undefined
       /\ fd'.pc \in {"residents", "logs", "centers"} => fd'.eventData # Null
       /\ resolved' \notin {resolved, NoResolution} => resolved'.event_id # Null
       /\ (fd.pc = "event" /\ fd'.pc = "idle") =>
             /\ ~dash_isLoading'
             /\ UNCHANGED <<stats, statusGroups, evacCenterGroups, evacStats, resolved>>]_vars

\* The registry has ended a load without an event id while the log holds
\* entries of the active event: every resident is shown with status undefined.
C17_Witness ==
    /\ route = "/residents"
    /\ rp = NoFetch
    /\ ~rp_isLoading
    /\ rp_activeEvent = Null
    /\ statusLog # <<>>
    /\ Len(rp_allResidents) = Cardinality(ResidentIds)
    /\ \A k \in DOMAIN rp_allResidents : rp_allResidents[k].status = Undefined

(***************************************************************************)
(* Properties of the resolution on degenerate inputs, checked under        *)
(* SpecDash.                                                               *)
(***************************************************************************)
\* C18: the resolution completes on degenerate inputs: for an empty set of
\* residents every count is zero and every group and the center stats are
\* empty; for an empty log every resident is Unknown, stats.Unknown is the
\* number of residents and every other count is 0.
C18_DegenerateInputs ==
    resolved.event_id # Null =>
        /\ resolved.residentIds = <<>> =>
              /\ \A s \in ResidentStatus : stats[s] = 0 /\ statusGroups[s] = <<>>
              /\ \A c \in CenterIds : evacCenterGroups[c] = <<>>
              /\ evacStats = <<>>
        /\ resolved.logs = <<>> =>
              /\ stats["Unknown"] = Len(resolved.residentIds)
              /\ statusGroups["Unknown"] = resolved.residentIds
              /\ \A s \in StatusOptions : stats[s] = 0 /\ statusGroups[s] = <<>>
              /\ \A c \in CenterIds : evacCenterGroups[c] = <<>>

\* A load has resolved the two residents against an empty log.
C18_Witness ==
    /\ resolved.event_id # Null
    /\ resolved.logs = <<>>
    /\ Len(resolved.residentIds) = 2
    /\ stats["Unknown"] = 2
    /\ fd.pc = "idle"
    /\ ~dash_isLoading

\* A load has resolved an empty set of residents while the log holds entries.
NoResidentsResolved ==
    /\ resolved.event_id # Null
    /\ resolved.residentIds = <<>>
    /\ statusLog # <<>>
    /\ fd.pc = "idle"
    /\ ~dash_isLoading

(***************************************************************************)
(* Properties of the entries of the status log, checked under SpecDash.    *)
(***************************************************************************)
\* C19: Unknown is never written to the status log: every entry the status
\* update appends has one of the statuses Safe, Evacuated, Injured, Missing
\* and Deceased.
C19_NoUnknownWritten ==
    \A i \in DOMAIN statusLog :
        statusLog[i].status \in {"Safe", "Evacuated", "Injured", "Missing", "Deceased"}

\* Two updates have appended entries of two statuses.
C19_Witness ==
    /\ Len(statusLog) = 2
    /\ statusLog[1].status = "Missing"
    /\ statusLog[2].status = "Evacuated"

(***************************************************************************)
(* The status log over every operation, checked under SpecLog.             *)
(***************************************************************************)
\* C20: the status log is append-only: over every step of every operation
\* (status updates, loads of the dashboard, of the registry and of the
\* status update page, downloads, cache clears) the entries the log holds
\* stay, unchanged and in place; entries are only added behind them.
C20_AppendOnly ==
    [][/\ Len(statusLog') >= Len(statusLog)
       /\ \A i \in DOMAIN statusLog : statusLog'[i] = statusLog[i]]_vars

\* Two updates have appended an entry each, a download has filled the cache
\* and the dashboard has resolved the log.
C20_Witness ==
    /\ Len(statusLog) = 2
    /\ statusLog[1].timestamp # statusLog[2].timestamp
    /\ idb["residents"] # {}
    /\ route = "/"
    /\ resolved.event_id # Null
    /\ Len(resolved.logs) = 2

(***************************************************************************)
(* The cache over every operation, checked under SpecLog.                  *)
(***************************************************************************)
\* C21: the local cache is a read-only mirror changed only by the download
\* and clear actions: a step changes a store only inside a transaction of
\* cacheData, setMetadata or clearCache that handleDownload or
\* handleClearCache has called, and every step of a page load, of a status
\* update, of a connectivity change or of the remote store leaves the three
\* stores as they are; no other step removes a record.
C21_ReadOnlyMirror ==
    [][/\ idb' # idb =>
             /\ tx # NoTx
             /\ tx.owner \in Callers
             /\ tx.name \in {"cacheData", "setMetadata", "clearCache"}
       /\ <<remoteVars, appVars, suVars, rpVars, dashVars>>' #
              <<remoteVars, appVars, suVars, rpVars, dashVars>> => idb' = idb]_vars

\* The cache a download filled is still there after a status update, a
\* switch to offline and an offline load of the status update page.
C21_Witness ==
    /\ idb["residents"] # {}
    /\ getMetadata("cacheInfo") # {}
    /\ statusLog # <<>>
    /\ ~isOnline
    /\ route = "/update"
    /\ su.pc = "idle" /\ su # NoFetch
    /\ su_allResidents # <<>>
    /\ dl.pc = "idle" /\ cl.pc = "idle"

(***************************************************************************)
(* Properties of the cache service, checked under SpecStore.               *)
(***************************************************************************)
\* The transaction that is running, as its call queued it.
RunningCall == Head(calls[tx.owner].queue)

\* The rows of the metadata store under other keys than the given one.
OtherRows(stores, key) == {x \in stores["metadata"] : x.key # key}

\* C22: the collections are independent: every step of a cacheData(name,
\* records) changes the named store at most and leaves every other store
\* and the metadata as they are, and every step of a setMetadata(key, value)
\* leaves the two data stores and the metadata rows of every other key as
\* they are.
C22_Independent ==
    [][tx # NoTx =>
          /\ tx.name = "cacheData" =>
                \A n \in STORES \ {RunningCall.requests[1].store} : idb'[n] = idb[n]
          /\ tx.name = "setMetadata" =>
                LET puts == SelectSeq(RunningCall.requests, LAMBDA req : req.op = "put")
                IN /\ idb'["residents"] = idb["residents"]
                   /\ idb'["evac_centers"] = idb["evac_centers"]
                   /\ OtherRows(idb', puts[1].item.key) = OtherRows(idb, puts[1].item.key)]_vars

\* A setMetadata has put the row of its key into a metadata store that holds
\* a row of another key, next to two filled data stores.
C22_Witness ==
    /\ tx # NoTx
    /\ tx.name = "setMetadata"
    /\ tx.requests = <<>>
    /\ {x.key : x \in idb["metadata"]} = MetadataInputs
    /\ OtherRows(tx.undo, "cacheInfo") = OtherRows(idb, "cacheInfo")
    /\ tx.undo["metadata"] # idb["metadata"]
    /\ idb["residents"] # {}
    /\ idb["evac_centers"] # {}

(***************************************************************************)
(* Properties of the dashboard's loads after updates, checked under        *)
(* SpecDash.                                                               *)
(***************************************************************************)
\* The step in which a load of the dashboard resolves the logs it has read.
fd_resolves == fd.pc = "logs" /\ fd'.pc = "centers"

\* The entry of the remote log recorded last for a resident in an event.
LastRowOf(eventId, r) ==
    CHOOSE i \in RowsOf(eventId, r) : \A j \in RowsOf(eventId, r) : j <= i

\* C23: a load of the dashboard that starts after the updates recorded for
\* a resident in the active event lists the resident under the status of
\* the update recorded last, also when two updates got the same timestamp.
C23_MostRecentUpdate ==
    [][fd_resolves =>
          \A r \in Range(fd.residentIds) :
              RowsOf(fd.eventData, r) # {} =>
                  r \in Range(statusGroups'[statusLog[LastRowOf(fd.eventData, r)].status])]_vars

(***************************************************************************)
(* Properties of overlapping dashboard loads, checked under SpecRace.      *)
(***************************************************************************)
\* What a load with the selected filters computes from the log.
SelectedIds == SeqOfSet(ResidentQuery(filterMunicipality, filterBarangay))

SelectedLatest == LatestLogs(LogQuery(activeEventRemote, SelectedIds))

NoLoadInFlight == route = "/" /\ fd.pc = "idle" /\ fdEarlier.pc = "idle"

\* C24: once every load in flight has completed, the counts, the status
\* groups, the evacuation groups and the affected total shown are those of a
\* load with the selected municipality and barangay: a load started earlier
\* never overwrites the result of one started later.
C24_SelectedFilterShown ==
    NoLoadInFlight =>
        /\ totalAffected = Len(SelectedIds)
        /\ Range(allAffectedIds) = Range(SelectedIds)
        /\ stats = NewStats(SelectedIds, SelectedLatest)
        /\ \A s \in ResidentStatus :
              Range(statusGroups[s]) = Range(NewGroups(SelectedIds, SelectedLatest)[s])
        /\ \A c \in CenterIds :
              Range(evacCenterGroups[c]) = Range(NewEvacGroups(SelectedLatest)[c])

(***************************************************************************)
(* The two reductions of the log compared, checked under SpecDash.         *)
(***************************************************************************)
\* The status the dashboard's reduction gives a resident: that of the entry
\* kept in latestStatusMap, Unknown without one.
DashboardStatus(logs, residentId) ==
    LET i == MapIndex(LatestLogs(logs), residentId)
    IN IF i = 0 THEN "Unknown" ELSE LatestLogs(logs)[i].status

\* C25: over the same log of the active event, read in ascending order of
\* timestamp, the dashboard's reduction (replace on a strictly greater
\* timestamp) and the registry's reduction (each entry overwrites the one
\* before) give every resident the same status, also when two entries of a
\* resident share a timestamp.
C25_SameStatus ==
    activeEventRemote # Null =>
        \A logs \in OrderedLogs(activeEventRemote) :
            \A r \in ResidentIds :
                DashboardStatus(logs, r) = MergedStatus(logs, r)

(***************************************************************************)
(* Properties of the values the dashboard shows, checked under SpecStats.  *)
(***************************************************************************)
\* C26: whenever the dashboard is not loading, the six status counts sum to
\* the number of ids in allAffectedIds, also after a load whose fetch of the
\* status log failed.
C26_CountsSumToAffected ==
    (route = "/" /\ ~dash_isLoading) =>
        SumOver(stats, ResidentStatus) = Len(allAffectedIds)

(***************************************************************************)
(* Properties of the reports page, checked under SpecReport.               *)
(***************************************************************************)
\* C27: every status count that handleGenerateReport passes to
\* generateReport is a non-negative integer, whatever list of residents
\* with status was returned for the active event.
C27_NonNegativeCounts ==
    gr.pc = "generate" => \A s \in ResidentStatus : gr.stats[s] \in Nat

(***************************************************************************)
(* Properties of the groups of a resolution, checked under SpecDash.       *)
(***************************************************************************)
\* The places a resident id has in the status groups.
PlacesOf(r) ==
    {<<s, i>> \in ResidentStatus \X (1 .. Cardinality(ResidentIds) + MaxLog) :
        i \in DOMAIN statusGroups[s] /\ statusGroups[s][i] = r}

\* C28: after a resolution of the dashboard the status groups partition the
\* filtered resident set (every id of the set is in exactly one group, once,
\* and the groups hold no other id), and the count of every status is the
\* length of its group.
C28_GroupsPartition ==
    resolved.event_id # Null =>
        /\ \A r \in Range(resolved.residentIds) : Cardinality(PlacesOf(r)) = 1
        /\ \A s \in ResidentStatus : Range(statusGroups[s]) \subseteq Range(resolved.residentIds)
        /\ \A s \in ResidentStatus : stats[s] = Len(statusGroups[s])

\* A resolution that put two residents in two groups, one of them Unknown.
C28_Witness ==
    /\ resolved.event_id # Null
    /\ Len(resolved.residentIds) = 2
    /\ Len(statusGroups["Unknown"]) = 1
    /\ \E s \in StatusOptions : Len(statusGroups[s]) = 1

(***************************************************************************)
(* Properties of the rows the status update writes, checked under SpecDash. *)
(***************************************************************************)
\* C29: an entry of the status log carries an evacuation center id only if
\* its status is Evacuated: whatever status and center the form had selected
\* when it was submitted, an entry with another status has evac_center_id
\* null.
C29_CenterOnlyIfEvacuated ==
    \A i \in DOMAIN statusLog :
        statusLog[i].status # "Evacuated" => statusLog[i].evac_center_id = Null

\* The log holds an entry of an evacuation with its center and, after it, an
\* entry of another status without one.
C29_Witness ==
    \E i, j \in DOMAIN statusLog :
        /\ i < j
        /\ statusLog[i].status = "Evacuated"
        /\ statusLog[i].evac_center_id \in CenterIds
        /\ statusLog[j].status # "Evacuated"
        /\ statusLog[j].evac_center_id = Null

(***************************************************************************)
(* Properties of a download whose fetch fails, checked under SpecCache.    *)
(***************************************************************************)
\* handleDownload is at one of its two remote fetches.
dl_fetching == dl.pc \in {"residents", "centers"}

\* A fetch of handleDownload fails: catch, then finally.
dl_aborts == dl_fetching /\ dl'.pc = "idle"

\* C30: a download one of whose remote fetches (residents, evacuation
\* centers) fails aborts before any cache write: up to its fetches the
\* download has issued no cache operation and runs no transaction, and the
\* failing step leaves the residents, evac_centers and metadata stores as
\* they are, starts no cache operation and clears the downloading flag.
C30_AbortsBeforeWrite ==
    [][/\ dl_fetching => calls["download"] = NoCall /\ tx.owner # "download"
       /\ dl_aborts => /\ idb' = idb
                       /\ tx' = tx
                       /\ calls'["download"] = NoCall
                       /\ isDownloading' = FALSE]_vars

\* A download at its fetch of the centers, while the page is mounted and the
\* three stores hold the records of an earlier download.
C30_Witness ==
    /\ dl.pc = "centers"
    /\ dl.mounted
    /\ isDownloading
    /\ \A n \in STORES : idb[n] # {}

====
